---------------------------- MODULE Spec2Model ----------------------------
(***************************************************************************)
(* Character-level RNN text generation notebooks.                          *)
(*                                                                         *)
(*   src/torch_model.ipynb   vocabulary, one_hot_encode, get_batches,      *)
(*                           CharRNN, train, checkpoint cells, sample      *)
(*   src/lstm-model-1.ipynb  Keras notebook: vocabulary, windows           *)
(*                                                                         *)
(* Python containers are 0-based, so arrays, tuples and strings are        *)
(* functions over 0..n-1 and dicts are functions over their key set.       *)
(* The deep-learning library (LSTM, autograd, optimizer) is an external    *)
(* collaborator: a forward pass is an uninterpreted function of its        *)
(* inputs, and a probability vector is any vector the network could emit.  *)
(***************************************************************************)
EXTENDS Integers, Sequences, FiniteSets, TLC

(***************************************************************************)
(* Bounds of the model.                                                    *)
(***************************************************************************)
NumSymbols == 2
MaxTextLen == 4
MaxWeight == 1
MaxArrLen == 9
MaxSeqs == 2
MaxSteps == 2
MaxVocab == 3
MaxPrime == 2
MaxSize == 2
MaxScore == 2
MaxDataLen == 8
MaxEpochs == 2
MaxPrintEvery == 2

(***************************************************************************)
(* Program constants.                                                      *)
(***************************************************************************)
DefaultNHidden == 256
DefaultNLayers == 2
DefaultDropProb == 50
NotebookNHidden == 512

\* Characters are code points, disjoint from the vocabulary indices 0..V-1.
Symbols == (NumSymbols + 1)..(2 * NumSymbols)

(***************************************************************************)
(* Python helpers.                                                         *)
(***************************************************************************)
\* len(a) of a 0-based array
Len0(a) == Cardinality(DOMAIN a)

\* all 0-based arrays over S of length at most n
Arrays(S, n) == UNION {[0..(k - 1) -> S] : k \in 0..n}

Max(S) == CHOOSE m \in S : \A x \in S : x <= m

\* set(text)
SetOf(a) == {a[i] : i \in DOMAIN a}

\* the iteration orders a set can have: tuple(set(...)) is one of them
Orderings(S) ==
  {f \in [0..(Cardinality(S) - 1) -> S] : \A i, j \in DOMAIN f : f[i] = f[j] => i = j}

\* sorted(list(S)): the ascending order
Sorted(S) ==
  CHOOSE f \in Orderings(S) : \A i, j \in DOMAIN f : i < j => f[i] < f[j]

\* dict(enumerate(t)): key i maps to t[i]
DictEnumerate(t) == [i \in 0..(Len0(t) - 1) |-> t[i]]

\* {ch: ii for ii, ch in d.items()}: items are visited in key order, a later
\* item overwrites an earlier one with the same ch
InvertDict(d) ==
  [ch \in {d[i] : i \in DOMAIN d} |-> Max({i \in DOMAIN d : d[i] = ch})]

\* dict((c, i) for i, c in enumerate(t))
DictCharIndex(t) ==
  [c \in {t[i] : i \in DOMAIN t} |-> Max({i \in DOMAIN t : t[i] = c})]

\* [d[ch] for ch in a]
MapDict(d, a) == [i \in DOMAIN a |-> d[a[i]]]

(***************************************************************************)
(* Vocabulary of the PyTorch notebook.                                     *)
(***************************************************************************)
\* (mutant: chars = tuple(text), the duplicates kept)
CharsOfNoSet(t) == {t}

\* chars = tuple(set(text)): the set's iteration order is not specified
CharsOf(t) == Orderings(SetOf(t))

\* chars = sorted(list(set(text))) in the Keras notebook
KerasCharsOf(t) == Sorted(SetOf(t))

(***************************************************************************)
(* CharRNN.__init__: the fields the notebook reads back.                   *)
(***************************************************************************)
CharRNN(tokens, n_hidden, n_layers, drop_prob, w) ==
  [chars |-> tokens,
   int2char |-> DictEnumerate(tokens),
   char2int |-> InvertDict(DictEnumerate(tokens)),
   n_hidden |-> n_hidden,
   n_layers |-> n_layers,
   drop_prob |-> drop_prob,
   weights |-> w,
   training |-> TRUE]

\* <<n_hidden, n_layers, drop_prob>>: the defaults, the notebook's call, another
HyperParams ==
  {<<DefaultNHidden, DefaultNLayers, DefaultDropProb>>,
   <<NotebookNHidden, DefaultNLayers, DefaultDropProb>>,
   <<NotebookNHidden, 1, 30>>}

\* init_weights draws the parameters at random; training changes them
Weights == 0..MaxWeight

\* a network that does not exist yet
NoNet == CharRNN(<<>>, 0, 0, 0, 0)

\* (mutant: the mode is left as it is)
ModeKept(n) == n

\* net.eval()
EvalMode(n) == [n EXCEPT !.training = FALSE]

\* net.train()
TrainMode(n) == [n EXCEPT !.training = TRUE]

(***************************************************************************)
(* Checkpoint file: torch.save pickles the dict, torch.load unpickles it.  *)
(* The file is a list of (key, value) entries; a tuple is written as the   *)
(* list of its items, in order, and read back into a tuple.                *)
(***************************************************************************)
TupleToItems(t) == [k \in 1..Len0(t) |-> t[k - 1]]

\* (mutant: the items are read back last first)
ItemsToTupleReversed(s) == [i \in 0..(Len(s) - 1) |-> s[Len(s) - i]]

ItemsToTuple(s) == [i \in 0..(Len(s) - 1) |-> s[i + 1]]

\* checkpoint = {'n_hidden': ..., 'n_layers': ..., 'state_dict': ..., 'tokens': net.chars}
CheckpointOf(n) ==
  [n_hidden |-> n.n_hidden,
   n_layers |-> n.n_layers,
   state_dict |-> [shape |-> <<Len0(n.chars), n.n_hidden, n.n_layers>>, weights |-> n.weights],
   tokens |-> n.chars]

TorchSave(c) ==
  << <<"n_hidden", c.n_hidden>>,
     <<"n_layers", c.n_layers>>,
     <<"state_dict", c.state_dict>>,
     <<"tokens", TupleToItems(c.tokens)>> >>

TorchLoad(f) ==
  [n_hidden |-> f[1][2],
   n_layers |-> f[2][2],
   state_dict |-> f[3][2],
   tokens |-> ItemsToTuple(f[4][2])]

\* (mutant: the vocabulary is rebuilt in sorted order instead of the saved order)
LoadedNetSorted(c) ==
  CharRNN(Sorted(SetOf(c.tokens)), c.n_hidden, c.n_layers, DefaultDropProb,
          c.state_dict.weights)

\* loaded = CharRNN(checkpoint['tokens'], n_hidden=..., n_layers=...)
\* loaded.load_state_dict(checkpoint['state_dict'])
LoadedNet(c) ==
  CharRNN(c.tokens, c.n_hidden, c.n_layers, DefaultDropProb, c.state_dict.weights)

NoFile == <<>>

(***************************************************************************)
(* numpy helpers.  A 2-D array is a 0-based array of rows.                 *)
(***************************************************************************)
\* the index a slice bound i denotes in a sequence of length n
SliceBound(i, n) ==
  IF i < 0 THEN (IF i + n < 0 THEN 0 ELSE i + n) ELSE (IF i > n THEN n ELSE i)

\* a[lo:hi]
PySlice(a, lo, hi) ==
  LET l == SliceBound(lo, Len0(a))
      h == SliceBound(hi, Len0(a))
  IN  [i \in 0..(h - l - 1) |-> a[l + i]]

\* a[lo:]
PySliceFrom(a, lo) == PySlice(a, lo, Len0(a))

\* arr.reshape((n_seqs, -1)) raises ValueError unless n_seqs divides the size
ReshapeOK(a, n_seqs) == Len0(a) % n_seqs = 0

\* (mutant: the array is filled column by column)
ReshapeColumnMajor(a, n_seqs) ==
  LET cols == Len0(a) \div n_seqs
  IN  [r \in 0..(n_seqs - 1) |-> [c \in 0..(cols - 1) |-> a[c * n_seqs + r]]]

\* arr.reshape((n_seqs, -1)): row-major
Reshape(a, n_seqs) ==
  LET cols == Len0(a) \div n_seqs
  IN  [r \in 0..(n_seqs - 1) |-> [c \in 0..(cols - 1) |-> a[r * cols + c]]]

\* arr.shape[1]
NCols(rows) == IF DOMAIN rows = {} THEN 0 ELSE Len0(rows[0])

\* arr[:, c]
Column(rows, c) == [r \in DOMAIN rows |-> rows[r][c]]

\* np.zeros_like(x)
ZerosLike(x) == [r \in DOMAIN x |-> [t \in DOMAIN x[r] |-> 0]]

\* y[:, :-1] = v
AssignButLast(y, v) ==
  [r \in DOMAIN y |->
     [t \in DOMAIN y[r] |-> IF t < Len0(y[r]) - 1 /\ t \in DOMAIN v[r] THEN v[r][t] ELSE y[r][t]]]

\* y[:, -1] = col
AssignLast(y, col) ==
  [r \in DOMAIN y |-> [t \in DOMAIN y[r] |-> IF t = Len0(y[r]) - 1 THEN col[r] ELSE y[r][t]]]

(***************************************************************************)
(* get_batches(arr, n_seqs, n_steps)                                       *)
(***************************************************************************)
\* batch_size = n_seqs * n_steps
BatchSize(n_seqs, n_steps) == n_seqs * n_steps

\* (mutant: the last, partial batch is counted too)
NBatchesCeil(a, n_seqs, n_steps) ==
  (Len0(a) + BatchSize(n_seqs, n_steps) - 1) \div BatchSize(n_seqs, n_steps)

\* n_batches = len(arr)//batch_size
NBatches(a, n_seqs, n_steps) == Len0(a) \div BatchSize(n_seqs, n_steps)

\* arr = arr[:n_batches * batch_size]
Truncated(a, n_seqs, n_steps) ==
  PySlice(a, 0, NBatches(a, n_seqs, n_steps) * BatchSize(n_seqs, n_steps))

\* (mutant: every batch is the first slice of the rows)
FeaturesFromStart(rows, n, n_steps) == [r \in DOMAIN rows |-> PySlice(rows[r], 0, n_steps)]

\* x = arr[:, n:n+n_steps]
Features(rows, n, n_steps) == [r \in DOMAIN rows |-> PySlice(rows[r], n, n + n_steps)]

\* arr[:, n+n_steps] raises IndexError
IndexErrorAt(rows, n, n_steps) == n + n_steps >= NCols(rows)

\* (mutant: the targets are a copy of the inputs, the last column wrapped)
TargetsUnshifted(rows, n, n_steps) ==
  AssignLast(Features(rows, n, n_steps), Column(rows, 0))

\* (mutant: the except branch assigns nothing)
TargetsWrapUnassigned(rows, n, n_steps) ==
  LET x == Features(rows, n, n_steps)
      shifted == [r \in DOMAIN x |-> PySliceFrom(x[r], 1)]
  IN  IF IndexErrorAt(rows, n, n_steps)
        THEN ZerosLike(x)
        ELSE AssignLast(AssignButLast(ZerosLike(x), shifted), Column(rows, n + n_steps))

\* y = np.zeros_like(x)
\* try:    y[:, :-1], y[:, -1] = x[:, 1:], arr[:, n+n_steps]
\* except IndexError:
\*         y[:, :-1], y[:, -1] = x[:, 1:], arr[:, 0]
Targets(rows, n, n_steps) ==
  LET x == Features(rows, n, n_steps)
      shifted == [r \in DOMAIN x |-> PySliceFrom(x[r], 1)]
      last == IF IndexErrorAt(rows, n, n_steps)
                THEN Column(rows, 0)
                ELSE Column(rows, n + n_steps)
  IN  AssignLast(AssignButLast(ZerosLike(x), shifted), last)

\* arr after the truncation and the reshape
BatchRows(a, n_seqs, n_steps) == Reshape(Truncated(a, n_seqs, n_steps), n_seqs)

\* the for loop goes on at n: n is in range(0, arr.shape[1], n_steps)
GenHasNext(a, n_seqs, n_steps, n) == n < NCols(BatchRows(a, n_seqs, n_steps))

\* the (x, y) yielded at loop variable n
GenBatch(a, n_seqs, n_steps, n) ==
  [x |-> Features(BatchRows(a, n_seqs, n_steps), n, n_steps),
   y |-> Targets(BatchRows(a, n_seqs, n_steps), n, n_steps)]

\* (mutant: a pass goes on where the pass before it stopped)
LoopVarResumed(pc, n, n_steps) == IF pc = "created" THEN n ELSE n + n_steps

\* for n in range(0, arr.shape[1], n_steps): the loop variable at the next yield
LoopVar(pc, n, n_steps) == IF pc = "created" THEN 0 ELSE n + n_steps

\* an array of ones shaped like a: the same code run on it leaves a one in
\* every element of y that it assigns, and np.zeros_like's zero elsewhere
OnesLike(a) == [i \in DOMAIN a |-> 1]

\* the array of positions of a: the same code run on it tells which element
\* of a lands where
PositionsOf(a) == [i \in DOMAIN a |-> i]

(***************************************************************************)
(* The network as a function.  The LSTM and the linear layer belong to the *)
(* library: in evaluation mode a forward pass is a deterministic function  *)
(* of the parameters, the hidden state and the input.  The hidden state is *)
(* the term built from what was fed since it was zeroed, and the softmax   *)
(* output is a positive score per vocabulary index, ties included.         *)
(***************************************************************************)
\* init_hidden: all zeros, with no gradient history.  val is the value (what
\* was fed since the zeros), hist the number of forward passes autograd can
\* walk back through from it
InitHidden == [val |-> <<>>, hist |-> 0]

\* (mutant: h is passed on as it is)
Attached(h) == h

\* tuple([Variable(each.data) for each in h]): the same values, cut from
\* their history
Detach(h) == [h EXCEPT !.hist = 0]

\* the hidden state returned by forward(x, h)
NextHidden(n, h, x) == [val |-> Append(h.val, <<n.weights, x>>), hist |-> h.hist + 1]

\* p = F.softmax(out).data for the one-character input x
ProbsOf(n, h, x) ==
  [j \in 0..(Len0(n.chars) - 1) |->
     1 + ((n.weights + Len(h.val) + x + j * (x + 1)) % MaxScore)]

\* criterion(output, targets.view(n_seqs*n_steps)): a positive number
LossOf(n, h, x, y) == 1 + ((n.weights + Len(h.val) + Len0(x)) % MaxScore)

\* top_k=None
NoTopK == -1

\* (mutant: the k smallest entries are kept)
TopKSmallest(p, k) ==
  {f \in [0..(k - 1) -> DOMAIN p] :
     /\ \A i, j \in DOMAIN f : f[i] = f[j] => i = j
     /\ \A i \in DOMAIN f : \A j \in (DOMAIN p) \ {f[m] : m \in DOMAIN f} : p[j] >= p[f[i]]}

\* p.topk(k): the indices of k largest entries, largest first; which of several
\* equal entries is taken is not specified
TopK(p, k) ==
  {f \in [0..(k - 1) -> DOMAIN p] :
     /\ \A i, j \in DOMAIN f : f[i] = f[j] => i = j
     /\ \A i, j \in DOMAIN f : i < j => p[f[i]] >= p[f[j]]
     /\ \A i \in DOMAIN f : \A j \in (DOMAIN p) \ {f[m] : m \in DOMAIN f} : p[j] <= p[f[i]]}

\* the candidate index tuples top_ch of predict
TopCh(n, p, top_k) ==
  IF top_k = NoTopK THEN {[j \in 0..(Len0(n.chars) - 1) |-> j]} ELSE TopK(p, top_k)

\* predict raises: KeyError for a character outside char2int; topk for a k
\* outside 0..V; np.random.choice for an empty top_ch, and for the 0-d arrays
\* that squeeze() makes of a single entry
PredictRaises(n, ch, top_k) ==
  \/ ch \notin DOMAIN n.char2int
  \/ top_k # NoTopK /\ (top_k < 0 \/ top_k > Len0(n.chars))
  \/ (IF top_k = NoTopK THEN Len0(n.chars) ELSE top_k) <= 1

\* the indices np.random.choice(top_ch, p=p/p.sum()) can draw: entry j of top_ch
\* is drawn with the probability paired with it
ChoiceOf(top_ch, p) == {top_ch[j] : j \in {i \in DOMAIN top_ch : p[top_ch[i]] > 0}}

\* (mutant: the drawn index is returned, not decoded through int2char)
PredictCharsRaw(n, ch, h, top_k) ==
  LET p == ProbsOf(n, h, n.char2int[ch])
  IN  UNION {ChoiceOf(top_ch, p) : top_ch \in TopCh(n, p, top_k)}

\* the characters predict can return
PredictChars(n, ch, h, top_k) ==
  LET p == ProbsOf(n, h, n.char2int[ch])
  IN  UNION {{n.int2char[c] : c \in ChoiceOf(top_ch, p)} : top_ch \in TopCh(n, p, top_k)}

(***************************************************************************)
(* train(net, data, epochs, n_seqs, n_steps, ..., val_frac, print_every)   *)
(***************************************************************************)
\* int(a / b) for b > 0: truncation toward zero
TruncDiv(a, b) == IF a >= 0 THEN a \div b ELSE -((-a) \div b)

\* val_idx = int(len(data)*(1-val_frac)), val_frac = vf[1]/vf[2].  The product
\* is a float: when the fraction is not a binary one and the exact product is
\* an integer q, rounding can leave it just below q, and int() then gives q-1
ValIdxChoices(len, vf) ==
  LET num == len * (vf[2] - vf[1])
      q == TruncDiv(num, vf[2])
  IN  IF num % vf[2] = 0 /\ q >= 1 /\ vf[2] \notin {1, 2} THEN {q - 1, q} ELSE {q}

\* data[:val_idx]
TrainData(data, val_idx) == PySlice(data, 0, val_idx)

\* (mutant: the validation part starts one element early)
ValDataOverlap(data, val_idx) ==
  PySliceFrom(data, IF val_idx = 0 \/ val_idx = -Len0(data) THEN val_idx ELSE val_idx - 1)

\* data[val_idx:]
ValData(data, val_idx) == PySliceFrom(data, val_idx)

\* (mutant: h is created once, before the epoch loop)
EpochHiddenCarried(e, h) == IF e = 0 THEN InitHidden ELSE h

\* h = net.init_hidden(n_seqs), at the top of each epoch
EpochHidden(e, h) == InitHidden

\* (mutant: the step within the epoch decides)
SweepDuePerEpoch(counter, n, n_steps, print_every) == ((n \div n_steps) + 1) % print_every = 0

\* if counter % print_every == 0
SweepDue(counter, n, n_steps, print_every) == counter % print_every = 0

RECURSIVE SumSeq(_)
SumSeq(l) == IF l = <<>> THEN 0 ELSE Head(l) + SumSeq(Tail(l))

\* np.mean(val_losses), as the fraction <<sum, count>>; <<0, 0>> is nan
MeanOf(l) == <<SumSeq(l), Len(l)>>

\* the elements of a 2-D array
Elements(a) == UNION {{a[r][t] : t \in DOMAIN a[r]} : r \in DOMAIN a}

\* the gradients of net.parameters(): the training batches (by counter) whose
\* backward passes are summed in them, and whether they have been clipped
NoGrad == [from |-> <<>>, clipped |-> FALSE]

\* x.view(x.size()[0]*x.size()[1], self.n_hidden): row r*n_steps + t is the
\* output for step t of row r
StackOutputs(o) == [i \in 0..(Len0(o) * NCols(o) - 1) |-> o[i \div NCols(o)][i % NCols(o)]]

\* (mutant: the targets are flattened column by column)
ViewFlatColumnMajor(y) == [i \in 0..(Len0(y) * NCols(y) - 1) |-> y[i % Len0(y)][i \div Len0(y)]]

\* targets.view(n_seqs*n_steps): element r*n_steps + t is y[r][t]
ViewFlat(y) == [i \in 0..(Len0(y) * NCols(y) - 1) |-> y[i \div NCols(y)][i % NCols(y)]]

\* criterion(output, targets) compares row i of output with element i of
\* targets: the pairs <<input the row is the prediction for, target>>
LossPairs(logits, targets) ==
  [i \in (DOMAIN logits) \cap (DOMAIN targets) |-> <<logits[i], targets[i]>>]

\* the state the operations of one batch work on
BatchState(n, h, grad) ==
  [weights |-> n.weights, h |-> h, h_in |-> h, grad |-> grad, logits |-> <<>>, n_logits |-> 0,
   n_targets |-> 0, loss |-> 0, pairs |-> <<>>, reach |-> 0, applied |-> <<>>, done |-> <<>>,
   modes |-> <<>>]

\* one operation of a batch, on the batch b = [x, y, px, py, counter] (px and
\* py are x and y as positions of data)
ApplyOp(op, n, st, b) ==
  LET st1 == [st EXCEPT !.done = Append(@, op)]
      nw == [n EXCEPT !.weights = st.weights]
  IN  CASE op = "rewrap" -> [st1 EXCEPT !.h = Detach(@)]
        [] op = "zero_grad" -> [st1 EXCEPT !.grad = NoGrad]
        [] op = "forward" ->
             [st1 EXCEPT !.h_in = st.h, !.h = NextHidden(nw, st.h, b.x),
                         !.logits = StackOutputs(b.px),
                         !.modes = Append(@, <<op, nw.training>>)]
        [] op = "loss" ->
             [st1 EXCEPT !.loss = LossOf(nw, st.h_in, b.x, b.y),
                         !.pairs = LossPairs(st.logits, ViewFlat(b.py)),
                         !.n_logits = Len0(st.logits),
                         !.n_targets = Len0(ViewFlat(b.py)),
                         !.reach = st.h.hist]
        [] op = "backward" ->
             [st1 EXCEPT !.grad = [from |-> Append(@.from, b.counter), clipped |-> FALSE]]
        [] op = "clip" -> [st1 EXCEPT !.grad.clipped = TRUE]
        [] op = "step" -> [st1 EXCEPT !.weights = @ + 1, !.applied = Append(@, st.grad),
                                      !.modes = Append(@, <<op, nw.training>>)]

RECURSIVE RunOps(_, _, _, _)
RunOps(ops, n, st, b) ==
  IF ops = <<>> THEN st ELSE RunOps(Tail(ops), n, ApplyOp(Head(ops), n, st, b), b)

\* (mutant: the gradients are not zeroed)
TrainStepOpsNoZero == <<"rewrap", "forward", "loss", "backward", "clip", "step">>

\* the body of the training loop, from the re-wrapping of h to opt.step()
TrainStepOps == <<"rewrap", "zero_grad", "forward", "loss", "backward", "clip", "step">>

\* (mutant: the validation loop also back-propagates and steps the optimizer)
ValStepOpsUpdating == <<"rewrap", "forward", "loss", "backward", "step">>

\* the body of the validation loop
ValStepOps == <<"rewrap", "forward", "loss">>

(***************************************************************************)
(* one_hot_encode(arr, n_labels)                                           *)
(***************************************************************************)
\* np.multiply(*arr.shape)
ShapeProduct(arr) == Len0(arr) * NCols(arr)

\* np.zeros((n, n_labels))
Zeros2(n, n_labels) == [k \in 0..(n - 1) |-> [l \in 0..(n_labels - 1) |-> 0]]

\* (mutant: the array is flattened column by column)
FlattenColumnMajor(arr) ==
  [k \in 0..(ShapeProduct(arr) - 1) |-> arr[k % Len0(arr)][k \div Len0(arr)]]

\* arr.flatten(): a copy, row by row
Flatten(arr) == [k \in 0..(ShapeProduct(arr) - 1) |-> arr[k \div NCols(arr)][k % NCols(arr)]]

\* one_hot[np.arange(one_hot.shape[0]), flat] = 1.
FillOnes(one_hot, flat) ==
  [k \in DOMAIN one_hot |-> [l \in DOMAIN one_hot[k] |-> IF l = flat[k] THEN 1 ELSE one_hot[k][l]]]

\* one_hot.reshape((*arr.shape, n_labels)): row-major
Reshape3(one_hot, arr) ==
  [i \in DOMAIN arr |-> [j \in DOMAIN arr[i] |-> one_hot[i * NCols(arr) + j]]]

\* the 2-D arrays of at most rows x cols elements of S, no dimension empty
Arrays2(S, rows, cols) ==
  UNION {[0..(r - 1) -> [0..(c - 1) -> S]] : r \in 1..rows, c \in 1..cols}

(***************************************************************************)
(* State of the notebook kernels (vocabulary and checkpoint cells).        *)
(***************************************************************************)
VARIABLES
  notebook,      \* which notebook's kernel this is: "torch" or "keras"
  defined,       \* names bound in the kernel's namespace
  text,          \* the corpus
  chars,         \* the vocabulary symbols, in index order
  int2char,      \* index -> symbol   (indices_char in the Keras notebook)
  char2int,      \* symbol -> index   (char_indices in the Keras notebook)
  encoded,       \* the corpus as indices
  net,           \* the CharRNN of the notebook
  rnn_net,       \* the file 'rnn.net'
  saved,         \* the network as it was when 'rnn.net' was written
  loaded,        \* the CharRNN rebuilt from the checkpoint
  loaded_src     \* the network whose checkpoint `loaded` was rebuilt from

(***************************************************************************)
(* State of one get_batches generator.                                     *)
(***************************************************************************)
VARIABLES
  gb_arr,        \* the argument arr
  gb_n_seqs,     \* the argument n_seqs
  gb_n_steps,    \* the argument n_steps
  gb_pc,         \* "created", "suspended" (at the yield), "finished", "raised"
  gb_n,          \* the loop variable n at the yield
  gb_out,        \* the batches [x, y] yielded so far, in order
  gb_pos,        \* the same batches, of the positions of arr
  gb_wrap,       \* per batch: was the IndexError branch taken
  gb_assigned,   \* per batch: y of the same code run on an array of ones
  gb_pass,       \* the number of the pass over arr that is running
  gb_first       \* the batches the first pass yielded

(***************************************************************************)
(* State of one call of sample(net, size, prime, top_k).                   *)
(***************************************************************************)
VARIABLES
  s_net,         \* the argument net
  s_size,        \* the argument size
  s_prime,       \* the argument prime
  s_top_k,       \* the argument top_k (NoTopK for None)
  s_pc,          \* "called", "prime", "gen", "returned", "raised"
  s_i,           \* position in the running for loop
  s_chars,       \* the list chars
  s_char,        \* the local char, when bound
  s_char_bound,  \* is the local char bound
  s_h,           \* the local h
  s_calls,       \* the predict calls made: [ch, h, out], in order
  s_ret          \* the returned string

(***************************************************************************)
(* State of one call of train.                                             *)
(***************************************************************************)
VARIABLES
  t_net,         \* the argument net
  t_arg,         \* the argument data
  t_cfg,         \* [epochs, n_seqs, n_steps, print_every, val_frac]
  t_pc,          \* "called", "epoch", "batch", "val", "returned"
  t_val_idx,     \* val_idx
  t_data,        \* data, after the split
  t_val_data,    \* val_data
  t_e,           \* e
  t_counter,     \* counter
  t_h,           \* h
  t_n,           \* loop variable n of the training generator
  t_loss,        \* loss of the last training batch
  t_grad,        \* the gradients held by net.parameters()
  t_val_h,       \* val_h
  t_val_n,       \* loop variable n of the validation generator
  t_val_losses,  \* val_losses
  t_steps,       \* the training steps made, in order
  t_sweeps,      \* the validation sweeps made, in order
  t_bound        \* what the names x, y and output are bound to (x, y as positions)

(***************************************************************************)
(* State of one call of one_hot_encode(arr, n_labels).                     *)
(***************************************************************************)
VARIABLES
  oh_arr,        \* the caller's array arr
  oh_arg,        \* arr as it was when the call was made
  oh_n_labels,   \* the argument n_labels
  oh_pc,         \* "called", "zeros", "filled", "returned"
  oh_one_hot     \* the local one_hot

(***************************************************************************)
(* State of a kernel of a Keras notebook, from the window cell on.         *)
(***************************************************************************)
VARIABLES
  k_nb,            \* the notebook: "lstm-model-1" or "part_000"
  k_text,          \* text
  k_max_len,       \* max_len
  k_step,          \* step
  k_char_indices,  \* char_indices
  k_indices_char,  \* indices_char
  k_pc,            \* the cell, or the loop, the kernel is at
  k_i,             \* the loop variable i of the running loop
  k_sentences,     \* sentences
  k_next_chars,    \* next_chars
  k_x,             \* x
  k_y,             \* y
  k_start_index,   \* start_index
  k_sentence,      \* sentence
  k_generated      \* generated

vocabVars == <<text, chars, int2char, char2int, encoded>>
ckptVars == <<net, rnn_net, saved, loaded, loaded_src>>
kernelVars == <<notebook, defined, vocabVars, ckptVars>>
batchVars ==
  <<gb_arr, gb_n_seqs, gb_n_steps, gb_pc, gb_n, gb_out, gb_pos, gb_wrap, gb_assigned, gb_pass,
    gb_first>>

sampleVars ==
  <<s_net, s_size, s_prime, s_top_k, s_pc, s_i, s_chars, s_char, s_char_bound, s_h,
    s_calls, s_ret>>

trainArgs == <<t_arg, t_cfg>>
trainSplit == <<t_val_idx, t_data, t_val_data>>
trainLoop == <<t_e, t_counter, t_h, t_n, t_loss, t_grad>>
trainVal == <<t_val_h, t_val_n, t_val_losses>>
trainVars == <<t_net, trainArgs, t_pc, trainSplit, trainLoop, trainVal, t_steps, t_sweeps, t_bound>>

oneHotVars == <<oh_arr, oh_arg, oh_n_labels, oh_pc, oh_one_hot>>

kerasVars ==
  <<k_nb, k_text, k_max_len, k_step, k_char_indices, k_indices_char, k_pc, k_i, k_sentences,
    k_next_chars, k_x, k_y, k_start_index, k_sentence, k_generated>>

vars == <<kernelVars, batchVars, sampleVars, trainVars, oneHotVars, kerasVars>>

\* what the cells of the kernel leave alone
nonKernelVars == <<batchVars, sampleVars, trainVars, oneHotVars, kerasVars>>
\* what a get_batches generator leaves alone
nonBatchVars == <<kernelVars, sampleVars, trainVars, oneHotVars, kerasVars>>
\* what sample leaves alone
nonSampleVars == <<kernelVars, batchVars, trainVars, oneHotVars, kerasVars>>
\* what train leaves alone
nonTrainVars == <<kernelVars, batchVars, sampleVars, oneHotVars, kerasVars>>
\* what one_hot_encode leaves alone
nonOneHotVars == <<kernelVars, batchVars, sampleVars, trainVars, kerasVars>>
\* what the cells of a Keras notebook leave alone
nonKerasVars == <<kernelVars, batchVars, sampleVars, trainVars, oneHotVars>>

(***************************************************************************)
(* The parts of the state a specification does not exercise stay idle.     *)
(***************************************************************************)
KernelIdle ==
  /\ notebook = "torch"
  /\ text = <<>>
  /\ defined = {}
  /\ chars = <<>>
  /\ int2char = <<>>
  /\ char2int = <<>>
  /\ encoded = <<>>
  /\ net = NoNet
  /\ loaded = NoNet
  /\ loaded_src = NoNet
  /\ rnn_net = NoFile
  /\ saved = NoNet

BatchIdle ==
  /\ gb_arr = <<>>
  /\ gb_n_seqs = 1
  /\ gb_n_steps = 1
  /\ gb_pc = "idle"
  /\ gb_n = 0
  /\ gb_out = <<>>
  /\ gb_pos = <<>>
  /\ gb_wrap = <<>>
  /\ gb_assigned = <<>>
  /\ gb_pass = 1
  /\ gb_first = <<>>

SampleIdle ==
  /\ s_net = NoNet
  /\ s_size = 0
  /\ s_prime = <<>>
  /\ s_top_k = NoTopK
  /\ s_pc = "idle"
  /\ s_i = 0
  /\ s_chars = <<>>
  /\ s_char = 0
  /\ s_char_bound = FALSE
  /\ s_h = InitHidden
  /\ s_calls = <<>>
  /\ s_ret = <<>>

KerasIdle ==
  /\ k_nb = "lstm-model-1"
  /\ k_text = <<>>
  /\ k_max_len = 1
  /\ k_step = 1
  /\ k_char_indices = <<>>
  /\ k_indices_char = <<>>
  /\ k_pc = "idle"
  /\ k_i = 0
  /\ k_sentences = <<>>
  /\ k_next_chars = <<>>
  /\ k_x = <<>>
  /\ k_y = <<>>
  /\ k_start_index = 0
  /\ k_sentence = <<>>
  /\ k_generated = <<>>

OneHotIdle ==
  /\ oh_arr = <<>>
  /\ oh_arg = <<>>
  /\ oh_n_labels = 1
  /\ oh_pc = "idle"
  /\ oh_one_hot = <<>>

\* x, y and output before the first batch: not bound
Unbound == [x |-> <<>>, y |-> <<>>, output |-> <<>>]

TrainIdle ==
  /\ t_net = NoNet
  /\ t_arg = <<>>
  /\ t_cfg = [epochs |-> 0, n_seqs |-> 1, n_steps |-> 1, print_every |-> 1,
              val_frac |-> <<1, 10>>]
  /\ t_pc = "idle"
  /\ t_val_idx = 0
  /\ t_data = <<>>
  /\ t_val_data = <<>>
  /\ t_e = 0
  /\ t_counter = 0
  /\ t_h = InitHidden
  /\ t_n = 0
  /\ t_loss = 0
  /\ t_grad = NoGrad
  /\ t_val_h = InitHidden
  /\ t_val_n = 0
  /\ t_val_losses = <<>>
  /\ t_steps = <<>>
  /\ t_sweeps = <<>>
  /\ t_bound = Unbound

(***************************************************************************)
(* Notebook cells.                                                         *)
(***************************************************************************)
\* a fresh kernel that has read the corpus
FreshKernel(nb, t) ==
  /\ notebook' = nb
  /\ text' = t
  /\ defined' = {"text"}
  /\ chars' = <<>>
  /\ int2char' = <<>>
  /\ char2int' = <<>>
  /\ encoded' = <<>>
  /\ net' = NoNet
  /\ loaded' = NoNet
  /\ loaded_src' = NoNet

KernelInit ==
  /\ notebook \in {"torch", "keras"}
  /\ text \in Arrays(Symbols, MaxTextLen)
  /\ defined = {"text"}
  /\ chars = <<>>
  /\ int2char = <<>>
  /\ char2int = <<>>
  /\ encoded = <<>>
  /\ net = NoNet
  /\ loaded = NoNet
  /\ loaded_src = NoNet
  /\ rnn_net = NoFile
  /\ saved = NoNet

\* chars = tuple(set(text)); int2char; char2int; encoded
VocabCell ==
  /\ notebook = "torch"
  /\ "chars" \notin defined
  /\ \E t \in CharsOf(text) :
       /\ chars' = t
       /\ int2char' = DictEnumerate(t)
       /\ char2int' = InvertDict(DictEnumerate(t))
       /\ encoded' = MapDict(InvertDict(DictEnumerate(t)), text)
  /\ defined' = defined \cup {"chars"}
  /\ UNCHANGED <<notebook, text, ckptVars>>
  /\ UNCHANGED nonKernelVars

\* chars = sorted(list(set(text))); char_indices; indices_char
KerasVocabCell ==
  /\ notebook = "keras"
  /\ "chars" \notin defined
  /\ chars' = KerasCharsOf(text)
  /\ char2int' = DictCharIndex(KerasCharsOf(text))
  /\ int2char' = DictEnumerate(KerasCharsOf(text))
  /\ defined' = defined \cup {"chars"}
  /\ UNCHANGED <<notebook, text, encoded, ckptVars>>
  /\ UNCHANGED nonKernelVars

\* net = CharRNN(chars, n_hidden=512, n_layers=2), for any hyperparameters
NetCell ==
  /\ notebook = "torch"
  /\ "chars" \in defined
  /\ \E hp \in HyperParams, w \in Weights :
       net' = CharRNN(chars, hp[1], hp[2], hp[3], w)
  /\ defined' = defined \cup {"net"}
  /\ UNCHANGED <<notebook, vocabVars, rnn_net, saved, loaded, loaded_src>>
  /\ UNCHANGED nonKernelVars

\* checkpoint = {...}; torch.save(checkpoint, f)
SaveCell ==
  /\ "net" \in defined
  /\ rnn_net' = TorchSave(CheckpointOf(net))
  /\ saved' = net
  /\ UNCHANGED <<notebook, defined, vocabVars, net, loaded, loaded_src>>
  /\ UNCHANGED nonKernelVars

\* checkpoint = torch.load(f); loaded = CharRNN(...); loaded.load_state_dict(...)
LoadCell ==
  /\ notebook = "torch"
  /\ rnn_net # NoFile
  /\ loaded' = LoadedNet(TorchLoad(rnn_net))
  /\ loaded_src' = saved
  /\ defined' = defined \cup {"loaded"}
  /\ UNCHANGED <<notebook, vocabVars, net, rnn_net, saved>>
  /\ UNCHANGED nonKernelVars

\* the kernel is restarted: the namespace is lost, the files stay
RestartKernel ==
  /\ "chars" \in defined
  /\ FreshKernel(notebook, text)
  /\ UNCHANGED <<rnn_net, saved>>
  /\ UNCHANGED nonKernelVars

(***************************************************************************)
(* Spec: the vocabulary cells of both notebooks, over every corpus.        *)
(***************************************************************************)
Init == KernelInit /\ BatchIdle /\ SampleIdle /\ TrainIdle /\ OneHotIdle /\ KerasIdle

Next ==
  \/ VocabCell
  \/ KerasVocabCell
  \/ RestartKernel

Spec == Init /\ [][Next]_vars

(***************************************************************************)
(* SpecCheckpoint: the network and checkpoint cells of the PyTorch         *)
(* notebook.  Only the set of symbols of the corpus matters to them, so    *)
(* the corpus is one text per set of symbols.                              *)
(***************************************************************************)
InitCheckpoint ==
  /\ KernelInit
  /\ BatchIdle
  /\ SampleIdle
  /\ TrainIdle
  /\ OneHotIdle
  /\ KerasIdle
  /\ notebook = "torch"
  /\ \E S \in SUBSET Symbols : text = Sorted(S)

NextCheckpoint ==
  \/ VocabCell
  \/ NetCell
  \/ SaveCell
  \/ LoadCell
  \/ RestartKernel

SpecCheckpoint == InitCheckpoint /\ [][NextCheckpoint]_vars

(***************************************************************************)
(* SpecBatches: one pass of get_batches over any array.  The function      *)
(* never looks at the values, so two values are enough to tell elements    *)
(* apart; the positions are followed exactly.                              *)
(***************************************************************************)
BatchAlphabet == {0, 1}

InitBatches ==
  /\ KernelIdle
  /\ SampleIdle
  /\ TrainIdle
  /\ OneHotIdle
  /\ KerasIdle
  /\ gb_arr \in Arrays(BatchAlphabet, MaxArrLen)
  /\ gb_n_seqs \in 1..MaxSeqs
  /\ gb_n_steps \in 1..MaxSteps
  /\ gb_pc = "created"
  /\ gb_n = 0
  /\ gb_out = <<>>
  /\ gb_pos = <<>>
  /\ gb_wrap = <<>>
  /\ gb_assigned = <<>>
  /\ gb_pass = 1
  /\ gb_first = <<>>

\* one next() on the generator: the body runs to its next yield, or to its end
GBNext ==
  /\ gb_pc \in {"created", "suspended"}
  /\ LET arr == Truncated(gb_arr, gb_n_seqs, gb_n_steps)
         n == LoopVar(gb_pc, gb_n, gb_n_steps)
     IN  IF ~ReshapeOK(arr, gb_n_seqs)
           THEN /\ gb_pc' = "raised"
                /\ UNCHANGED <<gb_n, gb_out, gb_pos, gb_wrap, gb_assigned>>
           ELSE IF GenHasNext(gb_arr, gb_n_seqs, gb_n_steps, n)
             THEN /\ gb_pc' = "suspended"
                  /\ gb_n' = n
                  /\ gb_out' = Append(gb_out, GenBatch(gb_arr, gb_n_seqs, gb_n_steps, n))
                  /\ gb_pos' = Append(gb_pos,
                                      GenBatch(PositionsOf(gb_arr), gb_n_seqs, gb_n_steps, n))
                  /\ gb_wrap' = Append(gb_wrap,
                       IndexErrorAt(BatchRows(gb_arr, gb_n_seqs, gb_n_steps), n, gb_n_steps))
                  /\ gb_assigned' = Append(gb_assigned,
                       GenBatch(OnesLike(gb_arr), gb_n_seqs, gb_n_steps, n).y)
             ELSE /\ gb_pc' = "finished"
                  /\ UNCHANGED <<gb_n, gb_out, gb_pos, gb_wrap, gb_assigned>>
  /\ UNCHANGED <<gb_arr, gb_n_seqs, gb_n_steps, gb_pass, gb_first>>
  /\ UNCHANGED nonBatchVars

NextBatches == GBNext

SpecBatches == InitBatches /\ [][NextBatches]_vars

\* x or y of a batch has exactly n_seqs rows of n_steps columns
HasShape(a, n_seqs, n_steps) ==
  /\ DOMAIN a = 0..(n_seqs - 1)
  /\ \A r \in DOMAIN a : DOMAIN a[r] = 0..(n_steps - 1)

(***************************************************************************)
(* C1: a pass of get_batches ends normally after exactly                   *)
(* floor(len(arr) / (n_seqs*n_steps)) batches, every x and y has n_seqs    *)
(* rows and n_steps columns, and no element at a position at or beyond     *)
(* n_batches*n_seqs*n_steps appears in an x.                               *)
(***************************************************************************)
BatchCountAndShape ==
  LET full == Len0(gb_arr) \div (gb_n_seqs * gb_n_steps)
  IN  /\ gb_pc # "raised"
      /\ Len(gb_out) <= full
      /\ gb_pc = "finished" => Len(gb_out) = full
      /\ Len(gb_pos) = Len(gb_out)
      /\ \A k \in DOMAIN gb_out :
           /\ HasShape(gb_out[k].x, gb_n_seqs, gb_n_steps)
           /\ HasShape(gb_out[k].y, gb_n_seqs, gb_n_steps)
           /\ HasShape(gb_pos[k].x, gb_n_seqs, gb_n_steps)
           /\ \A r \in DOMAIN gb_pos[k].x : \A t \in DOMAIN gb_pos[k].x[r] :
                /\ gb_pos[k].x[r][t] < full * gb_n_seqs * gb_n_steps
                /\ gb_out[k].x[r][t] = gb_arr[gb_pos[k].x[r][t]]

BatchCountAndShapeWitness ==
  /\ gb_pc = "finished"
  /\ Len(gb_out) >= 2
  /\ gb_n_seqs >= 2
  /\ gb_n_steps >= 2
  /\ Len0(gb_arr) % (gb_n_seqs * gb_n_steps) > 0

(***************************************************************************)
(* C2: in every batch y[r][t] = x[r][t+1] for t < n_steps-1; the last      *)
(* target column is the first column of the next batch when there is one,  *)
(* and column 0 of the reshaped array in the final batch of the pass.      *)
(***************************************************************************)
ShiftedIn(out, finished) ==
  \A k \in DOMAIN out : \A r \in DOMAIN out[k].y :
    /\ \A t \in 0..(gb_n_steps - 2) : out[k].y[r][t] = out[k].x[r][t + 1]
    /\ k < Len(out) => out[k].y[r][gb_n_steps - 1] = out[k + 1].x[r][0]
    /\ (k = Len(out) /\ finished) => out[k].y[r][gb_n_steps - 1] = out[1].x[r][0]

TargetsShifted ==
  /\ ShiftedIn(gb_out, gb_pc = "finished")
  /\ ShiftedIn(gb_pos, gb_pc = "finished")

TargetsShiftedWitness ==
  /\ gb_pc = "finished"
  /\ Len(gb_out) >= 2
  /\ gb_n_seqs >= 2
  /\ gb_n_steps >= 2
  /\ \E r \in DOMAIN gb_out[1].x : gb_out[1].y[r] # gb_out[1].x[r]

(***************************************************************************)
(* SpecSample: one call of sample on a trained network, for a vocabulary   *)
(* of one symbol and of MaxVocab symbols (indexed in descending order),    *)
(* every priming string over the first and the last symbol of the          *)
(* vocabulary and a character outside it, every size and top_k.            *)
(***************************************************************************)
SampleSymbols == (MaxVocab + 1)..(2 * MaxVocab)

\* a character no sampled network has in its vocabulary
OutsideSymbol == 2 * MaxVocab + 1

PrimeSymbols == {MaxVocab + 1, 2 * MaxVocab, OutsideSymbol}

\* t[::-1]
Reversed(t) == [i \in DOMAIN t |-> t[Len0(t) - 1 - i]]

SampleNets ==
  {CharRNN(t, DefaultNHidden, DefaultNLayers, DefaultDropProb, w) :
     t \in {Sorted({MaxVocab + 1}), Reversed(Sorted(SampleSymbols))},
     w \in {0, MaxWeight}}

InitSample ==
  /\ KernelIdle
  /\ BatchIdle
  /\ TrainIdle
  /\ OneHotIdle
  /\ KerasIdle
  /\ s_net \in SampleNets
  /\ s_size \in 0..MaxSize
  /\ s_prime \in Arrays(PrimeSymbols, MaxPrime)
  /\ s_top_k \in {NoTopK} \cup 0..(MaxVocab + 1)
  /\ s_pc = "called"
  /\ s_i = 0
  /\ s_chars = <<>>
  /\ s_char = 0
  /\ s_char_bound = FALSE
  /\ s_h = InitHidden
  /\ s_calls = <<>>
  /\ s_ret = <<>>

\* (mutant: one iteration short)
RangeShort(n) == 0..(n - 2)

\* (mutant: the stop value is part of the range)
RangeInclusive(n) == 0..n

\* range(n)
RangeOf(n) == 0..(n - 1)

\* (mutant: the first character of the list is fed back)
FirstOf(l) == l[1]

\* chars[-1]
LastOf(l) == l[Len(l)]

\* net.eval(); chars = [ch for ch in prime]; h = net.init_hidden(1)
SampleEnter ==
  /\ s_pc = "called"
  /\ s_net' = EvalMode(s_net)
  /\ s_chars' = TupleToItems(s_prime)
  /\ s_h' = InitHidden
  /\ s_pc' = "prime"
  /\ s_i' = 0
  /\ UNCHANGED <<s_size, s_prime, s_top_k, s_char, s_char_bound, s_calls, s_ret>>
  /\ UNCHANGED nonSampleVars

\* (mutant: a character outside the vocabulary is replaced by chars[0])
PredictStepSubstitute(ch) ==
  LET c == IF ch \in DOMAIN s_net.char2int THEN ch ELSE s_net.chars[0]
  IN  IF PredictRaises(s_net, c, s_top_k)
        THEN /\ s_pc' = "raised"
             /\ UNCHANGED <<s_char, s_char_bound, s_h, s_calls>>
        ELSE /\ \E out \in PredictChars(s_net, c, s_h, s_top_k) :
                  /\ s_char' = out
                  /\ s_calls' = Append(s_calls,
                       [ch |-> c, h |-> s_h, out |-> out, training |-> s_net.training,
                        h_in |-> Detach(s_h),
                        h_out |-> NextHidden(s_net, Detach(s_h), s_net.char2int[c])])
             /\ s_char_bound' = TRUE
             /\ s_h' = NextHidden(s_net, Detach(s_h), s_net.char2int[c])
             /\ UNCHANGED s_pc

\* char, h = net.predict(ch, h, top_k=top_k), with its results bound by the caller
PredictStep(ch) ==
  IF PredictRaises(s_net, ch, s_top_k)
    THEN /\ s_pc' = "raised"
         /\ UNCHANGED <<s_char, s_char_bound, s_h, s_calls>>
    ELSE /\ \E out \in PredictChars(s_net, ch, s_h, s_top_k) :
              /\ s_char' = out
              /\ s_calls' = Append(s_calls,
                   [ch |-> ch, h |-> s_h, out |-> out, training |-> s_net.training,
                    h_in |-> Detach(s_h),
                    h_out |-> NextHidden(s_net, Detach(s_h), s_net.char2int[ch])])
         /\ s_char_bound' = TRUE
         /\ s_h' = NextHidden(s_net, Detach(s_h), s_net.char2int[ch])
         /\ UNCHANGED s_pc

\* one iteration of: for ch in prime: char, h = net.predict(ch, h, ...)
SamplePrime ==
  /\ s_pc = "prime"
  /\ s_i < Len0(s_prime)
  /\ PredictStep(s_prime[s_i])
  /\ s_i' = s_i + 1
  /\ UNCHANGED <<s_net, s_size, s_prime, s_top_k, s_chars, s_ret>>
  /\ UNCHANGED nonSampleVars

\* the end of the priming loop, and chars.append(char)
SampleAppendFirst ==
  /\ s_pc = "prime"
  /\ s_i >= Len0(s_prime)
  /\ IF s_char_bound
       THEN /\ s_chars' = Append(s_chars, s_char)
            /\ s_pc' = "gen"
       ELSE /\ s_pc' = "raised"
            /\ UNCHANGED s_chars
  /\ s_i' = 0
  /\ UNCHANGED <<s_net, s_size, s_prime, s_top_k, s_char, s_char_bound, s_h, s_calls, s_ret>>
  /\ UNCHANGED nonSampleVars

\* one iteration of: for ii in range(size): char, h = net.predict(chars[-1], h, ...)
\*                                          chars.append(char)
SampleGen ==
  /\ s_pc = "gen"
  /\ s_i \in RangeOf(s_size)
  /\ PredictStep(LastOf(s_chars))
  /\ s_chars' = IF s_pc' = "raised" THEN s_chars ELSE Append(s_chars, s_char')
  /\ s_i' = s_i + 1
  /\ UNCHANGED <<s_net, s_size, s_prime, s_top_k, s_ret>>
  /\ UNCHANGED nonSampleVars

\* return ''.join(chars)
SampleReturn ==
  /\ s_pc = "gen"
  /\ s_i \notin RangeOf(s_size)
  /\ s_ret' = ItemsToTuple(s_chars)
  /\ s_pc' = "returned"
  /\ UNCHANGED <<s_net, s_size, s_prime, s_top_k, s_i, s_chars, s_char, s_char_bound, s_h,
                 s_calls>>
  /\ UNCHANGED nonSampleVars

NextSample ==
  \/ SampleEnter
  \/ SamplePrime
  \/ SampleAppendFirst
  \/ SampleGen
  \/ SampleReturn

SpecSample == InitSample /\ [][NextSample]_vars

(***************************************************************************)
(* C3 as claimed: the string sample returns has exactly size characters.   *)
(***************************************************************************)
SampleReturnsSizeChars == s_pc = "returned" => Len0(s_ret) = s_size

(***************************************************************************)
(* C3 as amended: the string sample returns has len(prime) + size + 1      *)
(* characters: the priming string, the prediction that follows it, and     *)
(* size more predictions.                                                  *)
(***************************************************************************)
SampleReturnsPrimePlusSizePlusOne ==
  s_pc = "returned" => Len0(s_ret) = Len0(s_prime) + s_size + 1

SampleReturnsPrimePlusSizePlusOneWitness ==
  /\ s_pc = "returned"
  /\ s_size >= 2
  /\ Len0(s_prime) >= 2

(***************************************************************************)
(* C4: when sample returns, every character of the returned string is a    *)
(* member of net.chars, for every size and top_k.                          *)
(***************************************************************************)
SampleReturnsVocabulary ==
  s_pc = "returned" =>
    /\ SetOf(s_prime) \subseteq SetOf(s_net.chars)
    /\ \A i \in DOMAIN s_ret : s_ret[i] \in SetOf(s_net.chars)

SampleReturnsVocabularyWitness ==
  /\ s_pc = "returned"
  /\ s_size >= 1
  /\ s_top_k \notin {NoTopK, Len0(s_net.chars)}
  /\ \E i \in DOMAIN s_ret : i >= Len0(s_prime) /\ s_ret[i] \notin SetOf(s_prime)

(***************************************************************************)
(* C5: with top_k = K every symbol predict returns is one of the K symbols *)
(* of highest probability for its input and hidden state (fewer than K     *)
(* symbols are strictly more probable); with top_k = None predict can      *)
(* return every vocabulary symbol.                                         *)
(***************************************************************************)
\* the number of symbols strictly more probable than symbol c, for a call
MoreProbable(call, c) ==
  LET p == ProbsOf(s_net, call.h, s_net.char2int[call.ch])
  IN  Cardinality({j \in DOMAIN p : p[j] > p[s_net.char2int[c]]})

PredictWithinTopK ==
  /\ \A k \in DOMAIN s_calls :
       /\ s_calls[k].out \in SetOf(s_net.chars)
       /\ s_top_k # NoTopK => MoreProbable(s_calls[k], s_calls[k].out) < s_top_k
  /\ \A k \in DOMAIN s_calls :
       s_top_k = NoTopK =>
         PredictChars(s_net, s_calls[k].ch, s_calls[k].h, s_top_k) = SetOf(s_net.chars)

PredictWithinTopKWitness ==
  /\ s_top_k # NoTopK
  /\ s_top_k < Len0(s_net.chars)
  /\ Len(s_calls) >= 2
  /\ \E c \in SetOf(s_net.chars) : MoreProbable(s_calls[2], c) >= s_top_k

(***************************************************************************)
(* SpecTrain: one call of train.  The loop never looks at the values of    *)
(* data, so one corpus per length is taken (the indices 0, 1, 0, 1, ...);  *)
(* the positions are followed exactly.  The network comes from a sample    *)
(* call, in evaluation mode.                                               *)
(***************************************************************************)
\* val_frac as <<numerator, denominator>>: the default 0.1, a half, and more than 1
ValFracs == {<<1, 10>>, <<1, 2>>, <<3, 2>>}

TrainCorpus(len) == [i \in 0..(len - 1) |-> i % 2]

TrainNet ==
  [CharRNN(Reversed(Sorted(SampleSymbols)), DefaultNHidden, DefaultNLayers, DefaultDropProb, 0)
     EXCEPT !.training = FALSE]

InitTrain ==
  /\ KernelIdle
  /\ BatchIdle
  /\ SampleIdle
  /\ OneHotIdle
  /\ KerasIdle
  /\ t_net = TrainNet
  /\ t_arg \in {TrainCorpus(len) : len \in 0..MaxDataLen}
  /\ t_cfg \in [epochs : 0..MaxEpochs, n_seqs : 1..MaxSeqs, n_steps : 1..MaxSteps,
                print_every : 1..MaxPrintEvery, val_frac : ValFracs]
  /\ t_pc = "called"
  /\ t_val_idx = 0
  /\ t_data = <<>>
  /\ t_val_data = <<>>
  /\ t_e = 0
  /\ t_counter = 0
  /\ t_h = InitHidden
  /\ t_n = 0
  /\ t_loss = 0
  /\ t_grad = NoGrad
  /\ t_val_h = InitHidden
  /\ t_val_n = 0
  /\ t_val_losses = <<>>
  /\ t_steps = <<>>
  /\ t_sweeps = <<>>
  /\ t_bound = Unbound

\* the positions of the argument data that a batch of the training part, or of
\* the validation part, is made of
BatchPositions(part, n) ==
  LET b == GenBatch(part, t_cfg.n_seqs, t_cfg.n_steps, n)
  IN  Elements(b.x) \cup Elements(b.y)

\* net.train(); val_idx = ...; data, val_data = data[:val_idx], data[val_idx:]; counter = 0
TrainEnter ==
  /\ t_pc = "called"
  /\ t_net' = TrainMode(t_net)
  /\ \E v \in ValIdxChoices(Len0(t_arg), t_cfg.val_frac) :
       /\ t_val_idx' = v
       /\ t_data' = TrainData(t_arg, v)
       /\ t_val_data' = ValData(t_arg, v)
  /\ t_counter' = 0
  /\ t_e' = 0
  /\ t_pc' = "epoch"
  /\ UNCHANGED <<trainArgs, t_h, t_n, t_loss, t_grad, trainVal, t_steps, t_sweeps, t_bound>>
  /\ UNCHANGED nonTrainVars

\* for e in range(epochs): h = net.init_hidden(n_seqs); the generator is created
EpochStart ==
  /\ t_pc = "epoch"
  /\ t_e \in RangeOf(t_cfg.epochs)
  /\ t_h' = EpochHidden(t_e, t_h)
  /\ t_n' = 0
  /\ t_pc' = "batch"
  /\ UNCHANGED <<t_net, trainArgs, trainSplit, t_e, t_counter, t_loss, t_grad, trainVal,
                 t_steps, t_sweeps, t_bound>>
  /\ UNCHANGED nonTrainVars

\* a batch of a part of data, with x and y also as positions of the argument
BatchOf(part, posPart, n, counter) ==
  [x |-> GenBatch(part, t_cfg.n_seqs, t_cfg.n_steps, n).x,
   y |-> GenBatch(part, t_cfg.n_seqs, t_cfg.n_steps, n).y,
   px |-> GenBatch(posPart, t_cfg.n_seqs, t_cfg.n_steps, n).x,
   py |-> GenBatch(posPart, t_cfg.n_seqs, t_cfg.n_steps, n).y,
   counter |-> counter]

\* what is recorded of a batch: its place, and what its operations did
BatchRecord(e, n, counter, b, h, w, grad, st) ==
  [e |-> e, n |-> n, counter |-> counter, h_arg |-> h, h_in |-> st.h_in, h_out |-> st.h,
   loss |-> st.loss, x |-> b.x, y |-> b.y, px |-> b.px, py |-> b.py,
   pos |-> Elements(b.px) \cup Elements(b.py), ops |-> st.done, applied |-> st.applied,
   w_in |-> w, w_out |-> st.weights, grad_in |-> grad, grad_out |-> st.grad,
   pairs |-> st.pairs, n_logits |-> st.n_logits, n_targets |-> st.n_targets,
   reach |-> st.reach, modes |-> st.modes]

\* one training batch: counter += 1 ... opt.step(), and the test of counter
TrainStep ==
  /\ t_pc = "batch"
  /\ GenHasNext(t_data, t_cfg.n_seqs, t_cfg.n_steps, t_n)
  /\ LET b == BatchOf(t_data, TrainData(PositionsOf(t_arg), t_val_idx), t_n, t_counter + 1)
         st == RunOps(TrainStepOps, t_net, BatchState(t_net, t_h, t_grad), b)
     IN  /\ t_counter' = t_counter + 1
         /\ t_h' = st.h
         /\ t_loss' = st.loss
         /\ t_grad' = st.grad
         /\ t_net' = [t_net EXCEPT !.weights = st.weights]
         /\ t_steps' = Append(t_steps,
                               BatchRecord(t_e, t_n, t_counter + 1, b, t_h, t_net.weights,
                                           t_grad, st))
         /\ t_bound' = [x |-> b.px, y |-> b.py, output |-> st.logits]
         /\ t_n' = t_n + t_cfg.n_steps
         /\ IF SweepDue(t_counter + 1, t_n, t_cfg.n_steps, t_cfg.print_every)
              THEN /\ t_pc' = "val"
                   /\ t_val_h' = InitHidden
                   /\ t_val_losses' = <<>>
                   /\ t_val_n' = 0
                   /\ t_sweeps' = Append(t_sweeps,
                        [counter |-> t_counter + 1, e |-> t_e, vals |-> <<>>, done |-> FALSE,
                         loss |-> 0, val_loss |-> <<0, 0>>])
              ELSE UNCHANGED <<t_pc, trainVal, t_sweeps>>
  /\ UNCHANGED <<trainArgs, trainSplit, t_e>>
  /\ UNCHANGED nonTrainVars

\* the training generator is exhausted: the epoch ends
EpochEnd ==
  /\ t_pc = "batch"
  /\ ~GenHasNext(t_data, t_cfg.n_seqs, t_cfg.n_steps, t_n)
  /\ t_e' = t_e + 1
  /\ t_pc' = "epoch"
  /\ UNCHANGED <<t_net, trainArgs, trainSplit, t_counter, t_h, t_n, t_loss, t_grad, trainVal,
                 t_steps, t_sweeps, t_bound>>
  /\ UNCHANGED nonTrainVars

\* one validation batch: forward, val_losses.append(val_loss.data[0])
ValStep ==
  /\ t_pc = "val"
  /\ GenHasNext(t_val_data, t_cfg.n_seqs, t_cfg.n_steps, t_val_n)
  /\ LET b == BatchOf(t_val_data, ValData(PositionsOf(t_arg), t_val_idx), t_val_n, t_counter)
         st == RunOps(ValStepOps, t_net, BatchState(t_net, t_val_h, t_grad), b)
     IN  /\ t_val_h' = st.h
         /\ t_val_losses' = Append(t_val_losses, st.loss)
         /\ t_grad' = st.grad
         /\ t_net' = [t_net EXCEPT !.weights = st.weights]
         /\ t_sweeps' = [t_sweeps EXCEPT ![Len(t_sweeps)].vals = Append(@,
                           BatchRecord(t_e, t_val_n, t_counter, b, t_val_h, t_net.weights,
                                       t_grad, st))]
         /\ t_bound' = [x |-> b.px, y |-> b.py, output |-> st.logits]
         /\ t_val_n' = t_val_n + t_cfg.n_steps
  /\ UNCHANGED <<trainArgs, t_pc, trainSplit, t_e, t_counter, t_h, t_n, t_loss, t_steps>>
  /\ UNCHANGED nonTrainVars

\* the validation generator is exhausted: print(..., loss.data[0], np.mean(val_losses))
ValReport ==
  /\ t_pc = "val"
  /\ ~GenHasNext(t_val_data, t_cfg.n_seqs, t_cfg.n_steps, t_val_n)
  /\ t_sweeps' = [t_sweeps EXCEPT ![Len(t_sweeps)].done = TRUE,
                                  ![Len(t_sweeps)].loss = t_loss,
                                  ![Len(t_sweeps)].val_loss = MeanOf(t_val_losses)]
  /\ t_pc' = "batch"
  /\ UNCHANGED <<t_net, trainArgs, trainSplit, trainLoop, trainVal, t_steps, t_bound>>
  /\ UNCHANGED nonTrainVars

\* range(epochs) is exhausted: train returns
TrainReturn ==
  /\ t_pc = "epoch"
  /\ t_e \notin RangeOf(t_cfg.epochs)
  /\ t_pc' = "returned"
  /\ UNCHANGED <<t_net, trainArgs, trainSplit, trainLoop, trainVal, t_steps, t_sweeps, t_bound>>
  /\ UNCHANGED nonTrainVars

NextTrain ==
  \/ TrainEnter
  \/ EpochStart
  \/ TrainStep
  \/ EpochEnd
  \/ ValStep
  \/ ValReport
  \/ TrainReturn

SpecTrain == InitTrain /\ [][NextTrain]_vars

(***************************************************************************)
(* C6: the hidden state given to the network for the first batch of every  *)
(* epoch is all zeros; for every later batch of the epoch it is the hidden *)
(* state the preceding training batch returned; nothing is carried from    *)
(* one epoch into the next.                                                *)
(***************************************************************************)
HiddenResetPerEpoch ==
  \A k \in DOMAIN t_steps :
    IF t_steps[k].n = 0
      THEN t_steps[k].h_in.val = InitHidden.val
      ELSE /\ k > 1
           /\ t_steps[k - 1].e = t_steps[k].e
           /\ t_steps[k - 1].n + t_cfg.n_steps = t_steps[k].n
           /\ t_steps[k].h_in.val = t_steps[k - 1].h_out.val

HiddenResetPerEpochWitness ==
  /\ Len(t_steps) >= 4
  /\ t_steps[4].e = 1
  /\ t_steps[4].n > 0
  /\ Len(t_sweeps) >= 1
  /\ Len(t_sweeps[1].vals) >= 1

(***************************************************************************)
(* C7: a validation sweep follows a training step exactly when the global  *)
(* step counter is a positive multiple of print_every; a sweep starts from *)
(* zero hidden state, evaluates every batch of get_batches(val_data) once, *)
(* in order, and reports the mean of their losses.                         *)
(***************************************************************************)
SweepsEveryPrintEvery ==
  /\ Len(t_steps) = t_counter
  /\ \A k \in DOMAIN t_steps : t_steps[k].counter = k
  /\ Len(t_sweeps) = t_counter \div t_cfg.print_every
  /\ \A j \in DOMAIN t_sweeps :
       LET sw == t_sweeps[j]
       IN  /\ sw.counter = j * t_cfg.print_every
           /\ (~sw.done) => (j = Len(t_sweeps) /\ t_pc = "val")
           /\ Len(sw.vals) <= NBatches(t_val_data, t_cfg.n_seqs, t_cfg.n_steps)
           /\ sw.done =>
                /\ Len(sw.vals) = NBatches(t_val_data, t_cfg.n_seqs, t_cfg.n_steps)
                /\ sw.val_loss[2] = Len(sw.vals)
                /\ sw.val_loss[1] = SumSeq([m \in DOMAIN sw.vals |-> sw.vals[m].loss])
           /\ \A m \in DOMAIN sw.vals :
                /\ sw.vals[m].n = (m - 1) * t_cfg.n_steps
                /\ sw.vals[m].x =
                     GenBatch(t_val_data, t_cfg.n_seqs, t_cfg.n_steps,
                              (m - 1) * t_cfg.n_steps).x
                /\ sw.vals[m].h_in.val =
                     IF m = 1 THEN InitHidden.val ELSE sw.vals[m - 1].h_out.val
  /\ t_pc = "val" => (Len(t_sweeps) > 0 /\ ~t_sweeps[Len(t_sweeps)].done)

SweepsEveryPrintEveryWitness ==
  /\ t_cfg.print_every >= 2
  /\ Len(t_sweeps) >= 2
  /\ t_sweeps[2].done
  /\ Len(t_sweeps[2].vals) >= 2
  /\ t_sweeps[2].e > t_sweeps[1].e
  /\ t_steps[t_sweeps[2].counter].n > 0

(***************************************************************************)
(* C8: train splits data at val_idx: the training part and the validation  *)
(* part are contiguous, disjoint and together the whole data; training     *)
(* batches hold only positions of the first part, validation batches only  *)
(* positions of the second.                                                *)
(***************************************************************************)
TrainValDisjoint ==
  t_pc \notin {"idle", "called"} =>
    /\ Len0(t_data) + Len0(t_val_data) = Len0(t_arg)
    /\ t_val_idx \in 0..Len0(t_arg) => Len0(t_data) = t_val_idx
    /\ \A i \in DOMAIN t_data : t_data[i] = t_arg[i]
    /\ \A i \in DOMAIN t_val_data : t_val_data[i] = t_arg[Len0(t_data) + i]
    /\ \A k \in DOMAIN t_steps : t_steps[k].pos \subseteq 0..(Len0(t_data) - 1)
    /\ \A j \in DOMAIN t_sweeps : \A m \in DOMAIN t_sweeps[j].vals :
         t_sweeps[j].vals[m].pos \subseteq Len0(t_data)..(Len0(t_arg) - 1)

TrainValDisjointWitness ==
  /\ Len(t_steps) >= 2
  /\ Len(t_sweeps) >= 1
  /\ Len(t_sweeps[1].vals) >= 1
  /\ t_val_idx > 0
  /\ t_steps[1].pos # {}
  /\ t_sweeps[1].vals[1].pos # {}

(***************************************************************************)
(* C9: the vocabulary is a bijection between the distinct symbols of the   *)
(* corpus and the indices 0..V-1: char2int[int2char[i]] = i for every      *)
(* index, int2char[char2int[c]] = c for every symbol of the text, and      *)
(* decoding the encoded corpus gives the text back (both notebooks).       *)
(***************************************************************************)
VocabBijection ==
  "chars" \in defined =>
    /\ DOMAIN int2char = 0..(Cardinality(SetOf(text)) - 1)
    /\ DOMAIN char2int = SetOf(text)
    /\ \A i \in DOMAIN int2char : char2int[int2char[i]] = i
    /\ \A i \in DOMAIN text : int2char[char2int[text[i]]] = text[i]
    /\ notebook = "torch" =>
         /\ DOMAIN encoded = DOMAIN text
         /\ \A i \in DOMAIN text : int2char[encoded[i]] = text[i]

VocabBijectionWitness ==
  /\ "chars" \in defined
  /\ Cardinality(SetOf(text)) >= 2
  /\ Len0(text) > Cardinality(SetOf(text))
  /\ notebook = "torch"
  /\ int2char[0] > int2char[1]

(***************************************************************************)
(* C10: the network rebuilt from a checkpoint has the chars, int2char and  *)
(* char2int of the network that was saved.                                 *)
(***************************************************************************)
CheckpointKeepsVocabulary ==
  "loaded" \in defined =>
    /\ loaded.chars = loaded_src.chars
    /\ loaded.int2char = loaded_src.int2char
    /\ loaded.char2int = loaded_src.char2int

CheckpointKeepsVocabularyWitness ==
  /\ "loaded" \in defined
  /\ "chars" \in defined
  /\ Len0(loaded.chars) >= 2
  /\ loaded.chars # chars
  /\ loaded.chars[0] > loaded.chars[1]

(***************************************************************************)
(* C11: the network rebuilt from a checkpoint has the hidden width, layer  *)
(* count, dropout configuration, parameters and vocabulary of the network  *)
(* that was saved, whatever it was constructed with.                       *)
(***************************************************************************)
CheckpointRebuildsEquivalent ==
  "loaded" \in defined =>
    /\ loaded.n_hidden = loaded_src.n_hidden
    /\ loaded.n_layers = loaded_src.n_layers
    /\ loaded.drop_prob = loaded_src.drop_prob
    /\ loaded.weights = loaded_src.weights
    /\ loaded.chars = loaded_src.chars

\* what the round trip does keep
CheckpointRebuildsAllButDropout ==
  "loaded" \in defined =>
    /\ loaded.n_hidden = loaded_src.n_hidden
    /\ loaded.n_layers = loaded_src.n_layers
    /\ loaded.drop_prob = DefaultDropProb
    /\ loaded.weights = loaded_src.weights
    /\ loaded.chars = loaded_src.chars

CheckpointRebuildsEquivalentWitness ==
  /\ "loaded" \in defined
  /\ loaded_src.drop_prob # DefaultDropProb
  /\ loaded_src.n_layers # DefaultNLayers
  /\ loaded_src.weights # 0
  /\ Len0(loaded.chars) >= 2

(***************************************************************************)
(* SpecOneHot: one call of one_hot_encode on an array of vocabulary        *)
(* indices, as predict and train make it.                                  *)
(***************************************************************************)
InitOneHot ==
  /\ KernelIdle
  /\ BatchIdle
  /\ SampleIdle
  /\ TrainIdle
  /\ KerasIdle
  /\ oh_n_labels \in 1..MaxVocab
  /\ oh_arr \in Arrays2(0..(oh_n_labels - 1), MaxSeqs, MaxSteps)
  /\ oh_arg = oh_arr
  /\ oh_pc = "called"
  /\ oh_one_hot = <<>>

\* one_hot = np.zeros((np.multiply(*arr.shape), n_labels), dtype=np.float32)
OneHotZeros ==
  /\ oh_pc = "called"
  /\ oh_one_hot' = Zeros2(ShapeProduct(oh_arr), oh_n_labels)
  /\ oh_pc' = "zeros"
  /\ UNCHANGED <<oh_arr, oh_arg, oh_n_labels>>
  /\ UNCHANGED nonOneHotVars

\* one_hot[np.arange(one_hot.shape[0]), arr.flatten()] = 1.
OneHotFill ==
  /\ oh_pc = "zeros"
  /\ oh_one_hot' = FillOnes(oh_one_hot, Flatten(oh_arr))
  /\ oh_pc' = "filled"
  /\ UNCHANGED <<oh_arr, oh_arg, oh_n_labels>>
  /\ UNCHANGED nonOneHotVars

\* one_hot = one_hot.reshape((*arr.shape, n_labels)); return one_hot
OneHotReturn ==
  /\ oh_pc = "filled"
  /\ oh_one_hot' = Reshape3(oh_one_hot, oh_arr)
  /\ oh_pc' = "returned"
  /\ UNCHANGED <<oh_arr, oh_arg, oh_n_labels>>
  /\ UNCHANGED nonOneHotVars

NextOneHot == OneHotZeros \/ OneHotFill \/ OneHotReturn

SpecOneHot == InitOneHot /\ [][NextOneHot]_vars

(***************************************************************************)
(* C12: one_hot_encode returns an array of shape (rows, cols, n_labels)    *)
(* whose entry [i][j][k] is 1 when k = arr[i][j] and 0 otherwise, and arr  *)
(* is unchanged.                                                           *)
(***************************************************************************)
OneHotSingleBit ==
  oh_pc = "returned" =>
    /\ oh_arr = oh_arg
    /\ DOMAIN oh_one_hot = 0..(Len0(oh_arg) - 1)
    /\ \A i \in DOMAIN oh_arg :
         /\ DOMAIN oh_one_hot[i] = 0..(NCols(oh_arg) - 1)
         /\ \A j \in DOMAIN oh_arg[i] :
              /\ DOMAIN oh_one_hot[i][j] = 0..(oh_n_labels - 1)
              /\ \A k \in 0..(oh_n_labels - 1) :
                   oh_one_hot[i][j][k] = (IF k = oh_arg[i][j] THEN 1 ELSE 0)
              /\ Cardinality({k \in DOMAIN oh_one_hot[i][j] : oh_one_hot[i][j][k] = 1}) = 1

OneHotSingleBitWitness ==
  /\ oh_pc = "returned"
  /\ Len0(oh_arg) >= 2
  /\ NCols(oh_arg) >= 2
  /\ oh_n_labels >= 3
  /\ oh_arg[0][1] # oh_arg[1][0]
  /\ oh_one_hot[0][1][oh_arg[0][1]] = 1
  /\ oh_one_hot[1][0][oh_arg[1][0]] = 1

(***************************************************************************)
(* SpecPasses: passes of get_batches over the same arr, n_seqs and         *)
(* n_steps, one after the other, as train starts them (one per epoch and   *)
(* one per validation sweep).  A for loop calls next() until the generator *)
(* is exhausted, and then the next pass is created.                        *)
(***************************************************************************)
MaxPasses == 2

\* get_batches(arr, n_seqs, n_steps) is called again, after a pass has ended
GBRestart ==
  /\ gb_pc = "finished"
  /\ gb_pass < MaxPasses
  /\ gb_pass' = gb_pass + 1
  /\ gb_first' = IF gb_pass = 1 THEN gb_out ELSE gb_first
  /\ gb_pc' = "created"
  /\ gb_out' = <<>>
  /\ gb_pos' = <<>>
  /\ gb_wrap' = <<>>
  /\ gb_assigned' = <<>>
  /\ UNCHANGED <<gb_arr, gb_n_seqs, gb_n_steps, gb_n>>
  /\ UNCHANGED nonBatchVars

NextPasses == GBNext \/ GBRestart

SpecPasses == InitBatches /\ [][NextPasses]_vars

(***************************************************************************)
(* C13: every pass of get_batches ends after its last batch (each next()   *)
(* is possible and lowers the number of next() calls left), and a later    *)
(* pass over the same arr, n_seqs and n_steps yields the same sequence of  *)
(* (x, y) batches as the first.                                            *)
(***************************************************************************)
LaterPassAgrees ==
  /\ gb_pc # "raised"
  /\ gb_pass > 1 =>
       /\ Len(gb_out) <= Len(gb_first)
       /\ \A k \in DOMAIN gb_out : gb_out[k] = gb_first[k]
       /\ gb_pc = "finished" => gb_out = gb_first

\* the next() calls a pass can still take: one per batch left, and the last
\* one, which ends the pass
PassMeasure ==
  IF gb_pc = "finished"
    THEN 0
    ELSE 1 + (Len0(gb_arr) \div (gb_n_seqs * gb_n_steps)) - Len(gb_out)

\* every next() brings the end of the pass nearer, and the one taken after
\* the last batch ends it
PassesEndAndAgree ==
  /\ []LaterPassAgrees
  /\ [][GBNext => (PassMeasure' >= 0 /\ PassMeasure' < PassMeasure)]_vars

PassesEndAndAgreeWitness ==
  /\ gb_pass = MaxPasses
  /\ gb_pc = "finished"
  /\ Len(gb_out) >= 2
  /\ gb_out = gb_first
  /\ gb_out[1] # gb_out[2]

(***************************************************************************)
(* C14 (as stated): in every batch, for every row r and column t, y[r][t]  *)
(* is the symbol that immediately follows x[r][t] in the encoded corpus.   *)
(***************************************************************************)
TargetsFollowInputs ==
  \A k \in DOMAIN gb_pos : \A r \in DOMAIN gb_pos[k].x : \A t \in DOMAIN gb_pos[k].x[r] :
    gb_pos[k].y[r][t] = gb_pos[k].x[r][t] + 1

(***************************************************************************)
(* C14 (amended): y[r][t] is the symbol that immediately follows x[r][t]   *)
(* in the encoded corpus, except in the last column of the final batch of  *)
(* a pass, where y[r][n_steps-1] is the first symbol of row r of the       *)
(* reshaped array.                                                         *)
(***************************************************************************)
TargetsFollowInputsButLast ==
  \A k \in DOMAIN gb_pos : \A r \in DOMAIN gb_pos[k].x : \A t \in DOMAIN gb_pos[k].x[r] :
    IF k = Len0(gb_arr) \div (gb_n_seqs * gb_n_steps) /\ t = gb_n_steps - 1
      THEN /\ gb_pos[k].y[r][t] = gb_pos[1].x[r][0]
           /\ gb_pos[k].y[r][t] # gb_pos[k].x[r][t] + 1
           /\ gb_out[k].y[r][t] = gb_arr[gb_pos[1].x[r][0]]
      ELSE /\ gb_pos[k].y[r][t] = gb_pos[k].x[r][t] + 1
           /\ gb_out[k].y[r][t] = gb_arr[gb_pos[k].x[r][t] + 1]

TargetsFollowInputsButLastWitness ==
  /\ gb_pc = "finished"
  /\ Len(gb_pos) >= 2
  /\ gb_n_seqs >= 2
  /\ gb_n_steps >= 2
  /\ gb_pos[Len(gb_pos)].y[0][gb_n_steps - 1] = gb_pos[1].x[0][0]
  /\ gb_out[Len(gb_out)].y[0][gb_n_steps - 1] # gb_arr[gb_pos[Len(gb_pos)].x[0][gb_n_steps - 1] + 1]

(***************************************************************************)
(* C15: every training step runs, in this order: hidden state re-wrapped,  *)
(* gradients zeroed, forward, loss, backward, clipping, optimizer step.    *)
(* The one optimizer step of a batch applies the clipped gradients of that *)
(* batch alone; a validation batch makes no optimizer step, no backward    *)
(* pass and no zeroing, and leaves parameters and gradients as they were.  *)
(***************************************************************************)
AllVals == {<<j, m>> \in (DOMAIN t_sweeps) \X (1..(MaxDataLen + 1)) : m \in DOMAIN t_sweeps[j].vals}

TrainStepOrder ==
  /\ \A k \in DOMAIN t_steps :
       /\ t_steps[k].ops =
            <<"rewrap", "zero_grad", "forward", "loss", "backward", "clip", "step">>
       /\ t_steps[k].applied = <<[from |-> <<k>>, clipped |-> TRUE]>>
       /\ t_steps[k].w_out = t_steps[k].w_in + 1
       /\ t_steps[k].w_in = IF k = 1 THEN TrainNet.weights ELSE t_steps[k - 1].w_out
  /\ t_net.weights = TrainNet.weights + Len(t_steps)
  /\ \A jm \in AllVals :
       LET v == t_sweeps[jm[1]].vals[jm[2]]
       IN  /\ v.applied = <<>>
           /\ \A i \in DOMAIN v.ops : v.ops[i] \notin {"step", "backward", "zero_grad", "clip"}
           /\ v.w_out = v.w_in
           /\ v.grad_out = v.grad_in

TrainStepOrderWitness ==
  /\ Len(t_steps) >= 3
  /\ t_steps[3].e = 1
  /\ Len(t_sweeps) >= 1
  /\ t_sweeps[1].counter < 3
  /\ Len(t_sweeps[1].vals) >= 1
  /\ t_steps[3].applied[1].from = <<3>>

(***************************************************************************)
(* SpecTrainOrSample: one call of train, or one call of sample.            *)
(***************************************************************************)
InitTrainOrSample == InitTrain \/ InitSample

NextTrainOrSample == NextTrain \/ NextSample

SpecTrainOrSample == InitTrainOrSample /\ [][NextTrainOrSample]_vars

(***************************************************************************)
(* C16: in every training batch, validation batch and predict call the     *)
(* hidden state given to forward has no gradient history, so the history   *)
(* of what forward returns, which a backward pass would walk, is one       *)
(* batch long, however many batches and epochs went before.                *)
(***************************************************************************)
HistoryOneBatch ==
  /\ \A k \in DOMAIN t_steps :
       /\ t_steps[k].h_in.hist = 0
       /\ t_steps[k].h_out.hist = 1
       /\ t_steps[k].reach = 1
  /\ \A jm \in AllVals :
       /\ t_sweeps[jm[1]].vals[jm[2]].h_in.hist = 0
       /\ t_sweeps[jm[1]].vals[jm[2]].h_out.hist = 1
  /\ \A k \in DOMAIN s_calls :
       /\ s_calls[k].h_in.hist = 0
       /\ s_calls[k].h_out.hist = 1

HistoryOneBatchWitness ==
  /\ Len(t_steps) >= 4
  /\ t_steps[4].e = 1
  /\ t_steps[4].n > 0
  /\ t_steps[4].h_arg.hist = 1
  /\ Len(t_steps[4].h_out.val) >= 2
  /\ Len(t_sweeps) >= 1
  /\ Len(t_sweeps[1].vals) >= 2
  /\ t_sweeps[1].vals[2].h_arg.hist = 1

(***************************************************************************)
(* C17: in every training and validation batch the loss compares row       *)
(* r*n_steps + t of the network output, the prediction for x[r][t], with   *)
(* element r*n_steps + t of the flattened targets, which is y[r][t]; the   *)
(* output has n_seqs*n_steps rows, the length of the flattened targets.    *)
(***************************************************************************)
AlignedIn(rec) ==
  /\ rec.n_logits = t_cfg.n_seqs * t_cfg.n_steps
  /\ rec.n_targets = t_cfg.n_seqs * t_cfg.n_steps
  /\ DOMAIN rec.pairs = 0..(t_cfg.n_seqs * t_cfg.n_steps - 1)
  /\ \A r \in 0..(t_cfg.n_seqs - 1) : \A t \in 0..(t_cfg.n_steps - 1) :
       rec.pairs[r * t_cfg.n_steps + t] = <<rec.px[r][t], rec.py[r][t]>>

LogitsAlignedWithTargets ==
  /\ \A k \in DOMAIN t_steps : AlignedIn(t_steps[k])
  /\ \A jm \in AllVals : AlignedIn(t_sweeps[jm[1]].vals[jm[2]])

LogitsAlignedWithTargetsWitness ==
  /\ t_cfg.n_seqs >= 2
  /\ t_cfg.n_steps >= 2
  /\ Len(t_steps) >= 1
  /\ Len(t_sweeps) >= 1
  /\ Len(t_sweeps[1].vals) >= 1
  /\ t_steps[1].pairs[1][1] # t_steps[1].pairs[2][1]

(***************************************************************************)
(* C18: sample starts from the zero hidden state; the priming characters   *)
(* are fed to predict one at a time in their order, later calls are fed    *)
(* the character the call before them returned, and every call gets the    *)
(* hidden state the call before it returned.  Of the predictions made      *)
(* while priming only the last is kept.                                    *)
(***************************************************************************)
SampleFeedsBack ==
  /\ \A k \in DOMAIN s_calls :
       /\ s_calls[k].h.val = IF k = 1 THEN InitHidden.val ELSE s_calls[k - 1].h_out.val
       /\ s_calls[k].ch = IF k <= Len0(s_prime) THEN s_prime[k - 1] ELSE s_calls[k - 1].out
  /\ s_pc \in {"gen", "returned"} =>
       /\ Len0(s_prime) >= 1
       /\ Len(s_chars) = Len(s_calls) + 1
       /\ \A i \in 1..Len0(s_prime) : s_chars[i] = s_prime[i - 1]
       /\ \A k \in Len0(s_prime)..Len(s_calls) : s_chars[k + 1] = s_calls[k].out
  /\ s_pc = "returned" => \A i \in DOMAIN s_ret : s_ret[i] = s_chars[i + 1]

SampleFeedsBackWitness ==
  /\ s_pc = "returned"
  /\ Len0(s_prime) = 2
  /\ s_prime[0] # s_prime[1]
  /\ Len(s_calls) >= 4
  /\ s_calls[1].out # s_calls[2].out
  /\ s_calls[3].out # s_calls[2].out
  /\ s_calls[3].out # s_prime[0]
  /\ s_ret[2] = s_calls[2].out

(***************************************************************************)
(* C19: the IndexError branch of get_batches is taken for the final batch  *)
(* of a pass and for no other, no pass ends with an exception, and every   *)
(* element of every yielded y is assigned, on either path.                 *)
(***************************************************************************)
WrapOnlyInFinalBatch ==
  /\ gb_pc # "raised"
  /\ Len(gb_wrap) = Len(gb_out)
  /\ Len(gb_assigned) = Len(gb_out)
  /\ \A k \in DOMAIN gb_wrap : gb_wrap[k] <=> (k = Len0(gb_arr) \div (gb_n_seqs * gb_n_steps))
  /\ \A k \in DOMAIN gb_assigned :
       /\ HasShape(gb_assigned[k], gb_n_seqs, gb_n_steps)
       /\ \A r \in DOMAIN gb_assigned[k] : \A t \in DOMAIN gb_assigned[k][r] :
            gb_assigned[k][r][t] = 1

WrapOnlyInFinalBatchWitness ==
  /\ gb_pc = "finished"
  /\ Len(gb_wrap) >= 2
  /\ gb_n_seqs >= 2
  /\ gb_n_steps >= 2
  /\ ~gb_wrap[1]
  /\ gb_wrap[Len(gb_wrap)]
  /\ gb_assigned[Len(gb_assigned)][1][gb_n_steps - 1] = 1
  /\ Len0(gb_arr) > Len(gb_out) * gb_n_seqs * gb_n_steps

(***************************************************************************)
(* C20: for an empty priming string, or one with a character that is not   *)
(* in net.chars, sample never gets past priming and returns nothing: no    *)
(* character outside the vocabulary is ever given a prediction, and the    *)
(* step that meets the end of an empty prime, or the foreign character,    *)
(* raises.                                                                 *)
(***************************************************************************)
InvalidPrime ==
  \/ s_prime = <<>>
  \/ \E i \in DOMAIN s_prime : s_prime[i] \notin SetOf(s_net.chars)

\* sample is at the statement that fails: chars.append(char) with char unbound,
\* or predict of a character outside the vocabulary
AtInvalidStep ==
  /\ s_pc = "prime"
  /\ IF s_i < Len0(s_prime)
       THEN s_prime[s_i] \notin SetOf(s_net.chars)
       ELSE s_prime = <<>>

NoTextForInvalidPrime ==
  (s_pc # "idle" /\ InvalidPrime) =>
    /\ s_pc \in {"called", "prime", "raised"}
    /\ s_ret = <<>>
    /\ \A k \in DOMAIN s_calls : s_calls[k].ch \in SetOf(s_net.chars)
    /\ \A k \in DOMAIN s_calls : \E i \in (k - 1)..(Len0(s_prime) - 1) :
         s_prime[i] \notin SetOf(s_net.chars)

InvalidPrimeRaises ==
  /\ []NoTextForInvalidPrime
  /\ [][AtInvalidStep => s_pc' = "raised"]_vars

InvalidPrimeRaisesWitness ==
  /\ s_pc = "raised"
  /\ Len0(s_prime) = 2
  /\ s_prime[0] \in SetOf(s_net.chars)
  /\ s_prime[1] \notin SetOf(s_net.chars)
  /\ Len(s_calls) = 1
  /\ s_i = 2

(***************************************************************************)
(* C21 (as stated): with top_k = 1 and a priming string of vocabulary      *)
(* characters sample does not raise, and every predict call returns the    *)
(* single most probable symbol.                                            *)
(***************************************************************************)
GreedyTopOne ==
  (s_top_k = 1 /\ s_pc # "idle" /\ ~InvalidPrime) =>
    /\ s_pc # "raised"
    /\ \A k \in DOMAIN s_calls : MoreProbable(s_calls[k], s_calls[k].out) = 0

\* what the code does with top_k = 1: the first predict call raises
TopOneRaises ==
  (s_top_k = 1 /\ s_pc # "idle" /\ ~InvalidPrime) =>
    /\ s_pc \in {"called", "prime", "raised"}
    /\ s_calls = <<>>
    /\ s_ret = <<>>
    /\ s_pc = "prime" => s_i = 0

TopOneRaisesWitness ==
  /\ s_top_k = 1
  /\ s_pc = "raised"
  /\ Len0(s_prime) = 2
  /\ ~InvalidPrime
  /\ Len0(s_net.chars) >= 2
  /\ s_calls = <<>>

(***************************************************************************)
(* The Keras notebooks (src/lstm-model-1.ipynb and src/unnamed/part_000):  *)
(* window cell, vectorization cells and, in lstm-model-1, the generation   *)
(* loop.  Strings and numpy arrays are 0-based arrays, lists are           *)
(* sequences.                                                              *)
(***************************************************************************)
MaxKerasLen == 5
MaxWindow == 2
MaxStride == 2
\* the generation loop runs range(400); the model runs range(GenLength)
GenLength == 2

\* the corpus of a Keras kernel is over two characters
KerasAlphabet == {NumSymbols + 1, NumSymbols + 2}

\* a + b, for strings
Concat0(a, b) ==
  [i \in 0..(Len0(a) + Len0(b) - 1) |-> IF i < Len0(a) THEN a[i] ELSE b[i - Len0(a)]]

\* (mutant: the stop value is part of the range)
RangeStepInclusive(stop, step) == {i \in 0..stop : i % step = 0}

\* range(0, stop, step)
RangeStep(stop, step) == {i \in 0..(stop - 1) : i % step = 0}

\* np.zeros((n, m))
KZeros2(n, m) == [i \in 0..(n - 1) |-> [l \in 0..(m - 1) |-> 0]]

\* np.zeros((n, max_len, m))
KZeros3(n, max_len, m) == [i \in 0..(n - 1) |-> KZeros2(max_len, m)]

\* (mutant: the bit of a character is set one position late)
OneHotWindowShifted(xi, sentence, char_indices) ==
  [t \in DOMAIN xi |->
     [l \in DOMAIN xi[t] |->
        IF (t - 1) \in DOMAIN sentence /\ l = char_indices[sentence[t - 1]] THEN 1 ELSE xi[t][l]]]

\* for t, char in enumerate(sentence): x[i, t, char_indices[char]] = 1
OneHotWindow(xi, sentence, char_indices) ==
  [t \in DOMAIN xi |->
     [l \in DOMAIN xi[t] |->
        IF t \in DOMAIN sentence /\ l = char_indices[sentence[t]] THEN 1 ELSE xi[t][l]]]

\* the last statement of the vectorization loop body, on row y[i]:
\*   lstm-model-1:  y[i, char_indices[next_chars[i]]] = 1
\*   part_000:      y[i, char_indices[next_chars[i]]]      (an expression: nothing is assigned)
TargetRow(nb, yi, idx) ==
  IF nb = "lstm-model-1" THEN [l \in DOMAIN yi |-> IF l = idx THEN 1 ELSE yi[l]] ELSE yi

\* (mutant: the window grows by the new character)
SlideWindowGrow(sentence, c) == Concat0(sentence, [i \in {0} |-> c])

\* sentence[1:] + next_char
SlideWindow(sentence, c) == Concat0(PySliceFrom(sentence, 1), [i \in {0} |-> c])

InitKeras ==
  /\ KernelIdle
  /\ BatchIdle
  /\ SampleIdle
  /\ TrainIdle
  /\ OneHotIdle
  /\ k_nb \in {"lstm-model-1", "part_000"}
  /\ k_text \in Arrays(KerasAlphabet, MaxKerasLen)
  /\ k_max_len \in 1..MaxWindow
  /\ k_step \in 1..MaxStride
  /\ k_char_indices = DictCharIndex(KerasCharsOf(k_text))
  /\ k_indices_char = DictEnumerate(KerasCharsOf(k_text))
  /\ k_pc = "windows"
  /\ k_i = 0
  /\ k_sentences = <<>>
  /\ k_next_chars = <<>>
  /\ k_x = <<>>
  /\ k_y = <<>>
  /\ k_start_index = 0
  /\ k_sentence = <<>>
  /\ k_generated = <<>>

\* one iteration of: for i in range(0, len(text)-max_len, step)
WindowStep ==
  /\ k_pc = "windows"
  /\ k_i \in RangeStep(Len0(k_text) - k_max_len, k_step)
  /\ IF (k_i + k_max_len) \in DOMAIN k_text
       THEN /\ k_sentences' = Append(k_sentences, PySlice(k_text, k_i, k_i + k_max_len))
            /\ k_next_chars' = Append(k_next_chars, k_text[k_i + k_max_len])
            /\ k_i' = k_i + k_step
            /\ UNCHANGED k_pc
       ELSE /\ k_pc' = "raised"
            /\ k_sentences' = Append(k_sentences, PySlice(k_text, k_i, k_i + k_max_len))
            /\ UNCHANGED <<k_next_chars, k_i>>
  /\ UNCHANGED <<k_nb, k_text, k_max_len, k_step, k_char_indices, k_indices_char, k_x, k_y,
                 k_start_index, k_sentence, k_generated>>
  /\ UNCHANGED nonKerasVars

\* the range is exhausted; x = np.zeros(...); y = np.zeros(...)
WindowsEnd ==
  /\ k_pc = "windows"
  /\ k_i \notin RangeStep(Len0(k_text) - k_max_len, k_step)
  /\ k_x' = KZeros3(Len(k_sentences), k_max_len, Len0(k_indices_char))
  /\ k_y' = KZeros2(Len(k_sentences), Len0(k_indices_char))
  /\ k_pc' = "vectorizing"
  /\ k_i' = 0
  /\ UNCHANGED <<k_nb, k_text, k_max_len, k_step, k_char_indices, k_indices_char, k_sentences,
                 k_next_chars, k_start_index, k_sentence, k_generated>>
  /\ UNCHANGED nonKerasVars

\* one iteration of: for i, sentence in enumerate(sentences)
VectorizeStep ==
  /\ k_pc = "vectorizing"
  /\ k_i < Len(k_sentences)
  /\ k_x' = [k_x EXCEPT ![k_i] = OneHotWindow(@, k_sentences[k_i + 1], k_char_indices)]
  /\ k_y' = [k_y EXCEPT ![k_i] = TargetRow(k_nb, @, k_char_indices[k_next_chars[k_i + 1]])]
  /\ k_i' = k_i + 1
  /\ UNCHANGED <<k_nb, k_text, k_max_len, k_step, k_char_indices, k_indices_char, k_pc,
                 k_sentences, k_next_chars, k_start_index, k_sentence, k_generated>>
  /\ UNCHANGED nonKerasVars

\* the vectorization loop ends
VectorizeEnd ==
  /\ k_pc = "vectorizing"
  /\ k_i >= Len(k_sentences)
  /\ k_pc' = "vectorized"
  /\ UNCHANGED <<k_nb, k_text, k_max_len, k_step, k_char_indices, k_indices_char, k_i,
                 k_sentences, k_next_chars, k_x, k_y, k_start_index, k_sentence, k_generated>>
  /\ UNCHANGED nonKerasVars

\* start_index = random.randint(0, len(text)-max_len-1); generated = '';
\* sentence = text[start_index:start_index+max_len]; generated += sentence
GenerateStart ==
  /\ k_pc = "vectorized"
  /\ k_nb = "lstm-model-1"
  /\ IF Len0(k_text) - k_max_len - 1 < 0
       THEN /\ k_pc' = "raised"
            /\ UNCHANGED <<k_start_index, k_sentence, k_generated>>
       ELSE /\ k_pc' = "generating"
            /\ \E start \in 0..(Len0(k_text) - k_max_len - 1) :
                 /\ k_start_index' = start
                 /\ k_sentence' = PySlice(k_text, start, start + k_max_len)
                 /\ k_generated' = Concat0(<<>>, PySlice(k_text, start, start + k_max_len))
  /\ k_i' = 0
  /\ UNCHANGED <<k_nb, k_text, k_max_len, k_step, k_char_indices, k_indices_char, k_sentences,
                 k_next_chars, k_x, k_y>>
  /\ UNCHANGED nonKerasVars

\* one iteration of: for i in range(400): the network's preds are not known,
\* np.argmax(preds) is an index of preds
GenerateStep ==
  /\ k_pc = "generating"
  /\ k_i \in RangeOf(GenLength)
  /\ IF Len0(k_sentence) > k_max_len
       THEN /\ k_pc' = "raised"
            /\ UNCHANGED <<k_sentence, k_generated>>
       ELSE /\ \E next_index \in DOMAIN k_indices_char :
                 /\ k_generated' = Concat0(k_generated, [i \in {0} |-> k_indices_char[next_index]])
                 /\ k_sentence' = SlideWindow(k_sentence, k_indices_char[next_index])
            /\ UNCHANGED k_pc
  /\ k_i' = k_i + 1
  /\ UNCHANGED <<k_nb, k_text, k_max_len, k_step, k_char_indices, k_indices_char, k_sentences,
                 k_next_chars, k_x, k_y, k_start_index>>
  /\ UNCHANGED nonKerasVars

\* the generation loop ends
GenerateEnd ==
  /\ k_pc = "generating"
  /\ k_i \notin RangeOf(GenLength)
  /\ k_pc' = "generated"
  /\ UNCHANGED <<k_nb, k_text, k_max_len, k_step, k_char_indices, k_indices_char, k_i,
                 k_sentences, k_next_chars, k_x, k_y, k_start_index, k_sentence, k_generated>>
  /\ UNCHANGED nonKerasVars

NextKeras ==
  \/ WindowStep
  \/ WindowsEnd
  \/ VectorizeStep
  \/ VectorizeEnd
  \/ GenerateStart
  \/ GenerateStep
  \/ GenerateEnd

SpecKeras == InitKeras /\ [][NextKeras]_vars

\* ceil(a / b) for an integer a of either sign and b > 0
CeilOf(a, b) == -((-a) \div b)

\* window k and its target are the slices of the text the claim names
WindowsAreSlices ==
  /\ \A k \in 0..(Len(k_sentences) - 1) :
       /\ k_sentences[k + 1] = PySlice(k_text, k * k_step, k * k_step + k_max_len)
       /\ k \in 0..(Len(k_next_chars) - 1) =>
            /\ Len0(k_sentences[k + 1]) = k_max_len
            /\ (k * k_step + k_max_len) \in DOMAIN k_text
            /\ k_next_chars[k + 1] = k_text[k * k_step + k_max_len]
  /\ k_pc \notin {"idle", "windows"} =>
       /\ Len(k_sentences) = Len(k_next_chars)
       /\ Len0(k_text) <= k_max_len => k_sentences = <<>>

\* C22 as stated: the windows are text[k*step : k*step+max_len] with target
\* text[k*step+max_len], each of max_len characters, each target inside the
\* text, and their number is ceil((len(text) - max_len) / step), none being
\* produced when len(text) <= max_len.
WindowCountIsCeil ==
  /\ WindowsAreSlices
  /\ k_pc \notin {"idle", "windows"} =>
       Len(k_sentences) = CeilOf(Len0(k_text) - k_max_len, k_step)

\* C22 amended: the same, the number of windows being
\* max(0, ceil((len(text) - max_len) / step)): a text shorter than max_len
\* gives no window, where the quotient's ceiling is negative.
WindowCountIsCeilOrZero ==
  /\ WindowsAreSlices
  /\ k_pc \notin {"idle", "windows"} =>
       Len(k_sentences) = IF Len0(k_text) > k_max_len
                            THEN CeilOf(Len0(k_text) - k_max_len, k_step)
                            ELSE 0

WindowCountIsCeilOrZeroWitness ==
  /\ k_pc = "vectorizing"
  /\ k_step = 2
  /\ k_max_len = 2
  /\ Len0(k_text) = 5
  /\ Len(k_sentences) = 2
  /\ Len(k_next_chars) = 2

\* row is the one-hot vector of index idx: one set bit, at idx, the rest 0
IsOneHotAt(row, idx) ==
  /\ idx \in DOMAIN row
  /\ \A l \in DOMAIN row : row[l] = (IF l = idx THEN 1 ELSE 0)
  /\ Cardinality({l \in DOMAIN row : row[l] # 0}) = 1

\* the windows the vectorization loop has completed
VectorizedRows ==
  IF k_pc = "vectorizing" THEN 0..(k_i - 1)
  ELSE IF k_pc \in {"vectorized", "generating", "generated"} THEN 0..(Len(k_sentences) - 1)
  ELSE {}

\* C23: after the vectorization loop of lstm-model-1, x[i][t] is the one-hot
\* vector of sentences[i][t] and y[i] the one-hot vector of next_chars[i]:
\* one set bit, at char_indices of the symbol, every other bit 0.  (Also for
\* the rows already done while the loop runs.)
VectorizationOneHot ==
  k_nb = "lstm-model-1" =>
    /\ k_pc \in {"vectorized", "generating", "generated"} =>
         /\ DOMAIN k_x = 0..(Len(k_sentences) - 1)
         /\ DOMAIN k_y = 0..(Len(k_sentences) - 1)
    /\ \A i \in VectorizedRows :
         /\ DOMAIN k_x[i] = 0..(k_max_len - 1)
         /\ \A t \in DOMAIN k_x[i] :
              IsOneHotAt(k_x[i][t], k_char_indices[k_sentences[i + 1][t]])
         /\ IsOneHotAt(k_y[i], k_char_indices[k_next_chars[i + 1]])

VectorizationOneHotWitness ==
  /\ k_nb = "lstm-model-1"
  /\ k_pc = "vectorized"
  /\ k_max_len = 2
  /\ Len(k_sentences) >= 2
  /\ Len0(k_indices_char) = 2
  /\ k_next_chars[1] # k_next_chars[2]
  /\ k_sentences[1][0] # k_sentences[1][1]
  /\ k_y[0] # k_y[1]

\* C24 as stated: after the vectorization loop of part_000, every target row
\* y[i] has exactly one set bit, at the vocabulary index of next_chars[i].
TargetRowsOneHot ==
  k_nb = "part_000" =>
    \A i \in VectorizedRows : IsOneHotAt(k_y[i], k_char_indices[k_next_chars[i + 1]])

\* what part_000 does: the last line of the loop body assigns nothing, y
\* stays as np.zeros made it, while x is filled as in lstm-model-1
TargetRowsStayZero ==
  k_nb = "part_000" =>
    /\ \A i \in DOMAIN k_y : \A l \in DOMAIN k_y[i] : k_y[i][l] = 0
    /\ \A i \in VectorizedRows : \A t \in DOMAIN k_x[i] :
         IsOneHotAt(k_x[i][t], k_char_indices[k_sentences[i + 1][t]])

TargetRowsStayZeroWitness ==
  /\ k_nb = "part_000"
  /\ k_pc = "vectorized"
  /\ Len(k_sentences) >= 2
  /\ Len0(k_indices_char) = 2
  /\ k_next_chars[1] # k_next_chars[2]

\* the symbols of the Keras vocabulary
KerasVocabulary == {k_indices_char[j] : j \in DOMAIN k_indices_char}

GenerationWindowInv ==
  /\ k_pc \in {"generating", "generated"} =>
       /\ k_start_index \in 0..(Len0(k_text) - k_max_len - 1)
       /\ Len0(k_sentence) = k_max_len
       /\ k_sentence = PySlice(k_generated, Len0(k_generated) - k_max_len, Len0(k_generated))
       /\ Len0(k_generated) = k_max_len + k_i
       /\ PySlice(k_generated, 0, k_max_len) =
            PySlice(k_text, k_start_index, k_start_index + k_max_len)
       /\ \A j \in DOMAIN k_generated : j >= k_max_len => k_generated[j] \in KerasVocabulary
  /\ k_pc = "generated" => Len0(k_generated) = k_max_len + GenLength
  /\ (k_pc = "raised" /\ k_nb = "lstm-model-1") => Len0(k_text) <= k_max_len

\* C30: in the generation loop sentence always has max_len characters and is
\* the last max_len characters of generated; each iteration appends exactly
\* one vocabulary symbol; after the loop generated has max_len + 400
\* characters (GenLength here for 400) and starts with the seed window
\* text[start_index : start_index+max_len], for every start_index in
\* 0..len(text)-max_len-1.
GenerationKeepsWindow ==
  /\ []GenerationWindowInv
  /\ [][(k_pc = "generating" /\ k_i' = k_i + 1) =>
          \E c \in KerasVocabulary :
            /\ k_generated' = Concat0(k_generated, [i \in {0} |-> c])
            /\ k_pc' = "generating"]_vars

GenerationKeepsWindowWitness ==
  /\ k_pc = "generated"
  /\ k_max_len = 2
  /\ k_start_index = 1
  /\ Len0(k_text) = 5
  /\ Len0(k_generated) = 2 + GenLength
  /\ k_generated[2] # k_generated[3]
  /\ k_generated[2] # k_text[3]
  /\ k_sentence # PySlice(k_text, 1, 3)

(***************************************************************************)
(* SpecBatchesOrTrain: a pass of get_batches on any array, or a call of    *)
(* train, which draws its batches from get_batches.                        *)
(***************************************************************************)
InitBatchesOrTrain == InitBatches \/ InitTrain

NextBatchesOrTrain == NextBatches \/ NextTrain

SpecBatchesOrTrain == InitBatchesOrTrain /\ [][NextBatchesOrTrain]_vars

\* position r*L + k*n_steps + t, with L = n_batches*n_steps, for the array a
TilePosition(a, n_seqs, n_steps, k, r, t) ==
  r * (NBatches(a, n_seqs, n_steps) * n_steps) + k * n_steps + t

\* the (batch, row, column) triples of the x of a list of batches
TriplesAt(out, p) ==
  {krt \in {<<k, r, t>> : k \in DOMAIN out, r \in 0..(MaxSeqs - 1), t \in 0..(MaxSteps - 1)} :
     /\ krt[2] \in DOMAIN out[krt[1]].x
     /\ krt[3] \in DOMAIN out[krt[1]].x[krt[2]]
     /\ out[krt[1]].x[krt[2]][krt[3]] = p}

\* C25: over one pass of get_batches, x of batch k at row r and column t is
\* arr[r*L + k*n_steps + t] with L = n_batches*n_steps, every retained
\* position is in exactly one (batch, row, column), and in each row batch k+1
\* starts right after the last column of batch k; in train the hidden state
\* a batch is given is the one the batch before it in the epoch returned, for
\* the stretch of text that the batch continues.
InputsTileCorpus ==
  /\ \A k \in DOMAIN gb_pos : \A r \in DOMAIN gb_pos[k].x : \A t \in DOMAIN gb_pos[k].x[r] :
       /\ gb_pos[k].x[r][t] = TilePosition(gb_arr, gb_n_seqs, gb_n_steps, k - 1, r, t)
       /\ gb_out[k].x[r][t] = gb_arr[TilePosition(gb_arr, gb_n_seqs, gb_n_steps, k - 1, r, t)]
       /\ k > 1 => gb_pos[k].x[r][0] = gb_pos[k - 1].x[r][gb_n_steps - 1] + 1
  /\ gb_pc = "finished" =>
       \A p \in 0..(NBatches(gb_arr, gb_n_seqs, gb_n_steps) * gb_n_seqs * gb_n_steps - 1) :
         Cardinality(TriplesAt(gb_pos, p)) = 1
  /\ \A k \in DOMAIN t_steps :
       /\ \A r \in DOMAIN t_steps[k].px : \A t \in DOMAIN t_steps[k].px[r] :
            /\ t_steps[k].px[r][t] =
                 TilePosition(t_data, t_cfg.n_seqs, t_cfg.n_steps,
                              t_steps[k].n \div t_cfg.n_steps, r, t)
            /\ t_steps[k].x[r][t] = t_data[t_steps[k].px[r][t]]
       /\ t_steps[k].n > 0 =>
            /\ k > 1
            /\ t_steps[k - 1].e = t_steps[k].e
            /\ t_steps[k].h_arg = t_steps[k - 1].h_out
            /\ \A r \in DOMAIN t_steps[k].px :
                 t_steps[k].px[r][0] = t_steps[k - 1].px[r][t_cfg.n_steps - 1] + 1

InputsTileCorpusWitness ==
  /\ gb_pc = "finished"
  /\ Len(gb_out) >= 2
  /\ gb_n_seqs = 2
  /\ gb_n_steps = 2
  /\ Len0(gb_arr) = 9
  /\ gb_pos[2].x[1][0] = 6
  /\ gb_out[1].x # gb_out[2].x

\* the training state a sweep could disturb: parameters (and the optimizer's
\* state, which only opt.step() changes with them), gradients, h, counter,
\* the place in the training generator and in the epochs, the training loss
TrainingState == <<t_net, t_grad, t_h, t_counter, t_n, t_e, t_loss, t_data, t_steps>>

\* during a sweep and when it has ended, the training state is the one the
\* triggering batch left
SweepLeavesTraining ==
  /\ t_pc = "val" =>
       LET trig == t_steps[Len(t_steps)]
       IN  /\ t_net.weights = trig.w_out
           /\ t_grad = trig.grad_out
           /\ t_h = trig.h_out
           /\ t_counter = trig.counter
           /\ t_n = trig.n + t_cfg.n_steps
           /\ t_e = trig.e
           /\ t_loss = trig.loss
           /\ t_sweeps[Len(t_sweeps)].counter = trig.counter
           \* the names x, y, output are rebound by every validation batch
           /\ t_sweeps[Len(t_sweeps)].vals # <<>> =>
                LET v == t_sweeps[Len(t_sweeps)].vals[Len(t_sweeps[Len(t_sweeps)].vals)]
                IN  t_bound = [x |-> v.px, y |-> v.py, output |-> StackOutputs(v.px)]
  /\ \A j \in DOMAIN t_sweeps :
       /\ t_sweeps[j].counter \in DOMAIN t_steps
       /\ t_sweeps[j].done => t_sweeps[j].loss = t_steps[t_sweeps[j].counter].loss
       /\ \A m \in DOMAIN t_sweeps[j].vals :
            LET v == t_sweeps[j].vals[m]
            IN  /\ v.w_in = v.w_out
                /\ v.w_out = t_steps[t_sweeps[j].counter].w_out
                /\ v.grad_in = v.grad_out
                /\ v.applied = <<>>
                /\ v.counter = t_sweeps[j].counter
  \* the training batch after a sweep goes on from the triggering batch
  /\ \A k \in DOMAIN t_steps :
       k > 1 =>
         /\ t_steps[k].w_in = t_steps[k - 1].w_out
         /\ t_steps[k].grad_in = t_steps[k - 1].grad_out
         /\ t_steps[k].counter = t_steps[k - 1].counter + 1
         /\ t_steps[k].e = t_steps[k - 1].e =>
              /\ t_steps[k].h_arg = t_steps[k - 1].h_out
              /\ t_steps[k].n = t_steps[k - 1].n + t_cfg.n_steps

\* C26: a validation sweep changes no training state (parameters, optimizer
\* state, h, counter, place in the training batches), and the training loss
\* printed with it is the loss of the batch that triggered it, although the
\* sweep rebinds x, y and output.
SweepChangesNoTraining ==
  /\ []SweepLeavesTraining
  /\ [][t_pc = "val" => UNCHANGED TrainingState]_vars

SweepChangesNoTrainingWitness ==
  /\ t_pc = "batch"
  /\ Len(t_sweeps) >= 1
  /\ t_sweeps[1].done
  /\ Len(t_sweeps[1].vals) >= 2
  /\ t_sweeps[1].loss # t_sweeps[1].vals[2].loss
  /\ Len(t_steps) > t_sweeps[1].counter
  /\ t_steps[t_sweeps[1].counter + 1].n > 0
  /\ t_steps[t_sweeps[1].counter + 1].px # t_sweeps[1].vals[2].px

\* the batches of one epoch: floor(len(training split) / (n_seqs*n_steps))
BatchesPerEpoch == Len0(t_data) \div (t_cfg.n_seqs * t_cfg.n_steps)

\* the optimizer steps taken so far
OptimizerSteps(steps, k) == Cardinality({j \in 1..k : Len(steps[j].applied) = 1})

StepCounts ==
  /\ t_counter = Len(t_steps)
  /\ t_net.weights = Len(t_steps)
  /\ OptimizerSteps(t_steps, Len(t_steps)) = Len(t_steps)
  /\ \A k \in DOMAIN t_steps :
       /\ t_steps[k].counter = k
       /\ Len(t_steps[k].applied) = 1
       /\ t_steps[k].w_out = t_steps[k].w_in + 1
  /\ t_pc \notin {"idle", "called"} => Len(t_steps) <= t_cfg.epochs * BatchesPerEpoch
  /\ t_pc = "returned" =>
       /\ Len(t_steps) = t_cfg.epochs * BatchesPerEpoch
       /\ Len(t_sweeps) = (t_cfg.epochs * BatchesPerEpoch) \div t_cfg.print_every
       /\ \A j \in DOMAIN t_sweeps : t_sweeps[j].done

\* an upper bound of the steps train still takes: a batch costs its own step
\* and at most a sweep (the validation batches and the report), an epoch its
\* start, its batches and its end
TrainMeasure ==
  LET perBatch == Len0(t_val_data) + 2
      perEpoch == BatchesPerEpoch * perBatch + 2
      batchesLeft == BatchesPerEpoch - (t_n \div t_cfg.n_steps)
      atBatch == (t_cfg.epochs - t_e - 1) * perEpoch + 2 + batchesLeft * perBatch
  IN  CASE t_pc = "called" ->
             t_cfg.epochs * (Len0(t_arg) * (Len0(t_arg) + 2) + 2) + 2
        [] t_pc = "epoch" -> (t_cfg.epochs - t_e) * perEpoch + 1
        [] t_pc = "batch" -> atBatch
        [] t_pc = "val" -> atBatch + (Len0(t_val_data) - (t_val_n \div t_cfg.n_steps)) + 1
        [] OTHER -> 0

\* where train stands has a next step unless train has returned: the split
\* always exists, and every loop either goes on or ends
TrainGoesOn ==
  /\ t_pc \in {"called", "epoch", "batch", "val", "returned"}
  /\ t_pc = "called" => ValIdxChoices(Len0(t_arg), t_cfg.val_frac) # {}
  /\ t_pc = "epoch" => (t_e \in RangeOf(t_cfg.epochs) \/ t_e \notin RangeOf(t_cfg.epochs))
  /\ t_pc = "batch" => (GenHasNext(t_data, t_cfg.n_seqs, t_cfg.n_steps, t_n)
                          \/ ~GenHasNext(t_data, t_cfg.n_seqs, t_cfg.n_steps, t_n))
  /\ t_pc = "val" => (GenHasNext(t_val_data, t_cfg.n_seqs, t_cfg.n_steps, t_val_n)
                        \/ ~GenHasNext(t_val_data, t_cfg.n_seqs, t_cfg.n_steps, t_val_n))

\* C27: train terminates for every finite data (it always has a next step
\* until it returns, and every step lowers a bound of the steps left),
\* after exactly epochs * floor(len(training split) / (n_seqs*n_steps))
\* optimizer steps; counter goes up by exactly 1 per training batch; the
\* number of validation sweeps is floor(total steps / print_every).
TrainTerminates ==
  /\ []StepCounts
  /\ []TrainGoesOn
  /\ [][NextTrain => (TrainMeasure' >= 0 /\ TrainMeasure' < TrainMeasure)]_vars
  /\ [][t_counter' # t_counter =>
          (t_counter' = t_counter + 1 /\ Len(t_steps') = Len(t_steps) + 1)]_vars
  /\ [][Len(t_steps') # Len(t_steps) => t_counter' = t_counter + 1]_vars

TrainTerminatesWitness ==
  /\ t_pc = "returned"
  /\ t_cfg.epochs = 2
  /\ BatchesPerEpoch >= 2
  /\ t_cfg.print_every = 2
  /\ Len0(t_data) % (t_cfg.n_seqs * t_cfg.n_steps) > 0
  /\ Len(t_sweeps) >= 2
  /\ Len(t_steps) > t_cfg.epochs

\* C28: the string sample returns begins with the priming string
\* unchanged, every later character is the output of a predict call, in
\* call order (those of the last priming call and of the size generation
\* calls), and for a non-empty prime predict is invoked exactly
\* len(prime) + size times.
SampleReturnsPrimeThenOutputs ==
  /\ Len(s_calls) <= Len0(s_prime) + s_size
  /\ s_pc = "returned" =>
       /\ Len0(s_prime) > 0
       /\ Len(s_calls) = Len0(s_prime) + s_size
       /\ Len0(s_ret) = Len0(s_prime) + s_size + 1
       /\ \A i \in DOMAIN s_prime : s_ret[i] = s_prime[i]
       /\ \A j \in 0..s_size : s_ret[Len0(s_prime) + j] = s_calls[Len0(s_prime) + j].out

SampleReturnsPrimeThenOutputsWitness ==
  /\ s_pc = "returned"
  /\ Len0(s_prime) = 2
  /\ s_prime[0] # s_prime[1]
  /\ s_size = 2
  /\ Len(s_calls) = 4
  /\ s_calls[1].out # s_calls[2].out
  /\ s_ret[2] # s_ret[3]

(***************************************************************************)
(* SpecCalls: train and sample are called one after the other, in any      *)
(* order, on the same network object.  A call starts when no call runs;    *)
(* the frame of the call before it is gone, the network is as that call    *)
(* left it.  Each call takes small arguments; train is called as long as   *)
(* the network has had fewer than MaxUpdates updates.                      *)
(***************************************************************************)
MaxUpdates == 2

\* the network the running call, or the last call, works on
CurrentNet == IF t_pc # "idle" THEN t_net ELSE s_net

NoCallRunning ==
  \/ t_pc = "idle" /\ s_pc \in {"returned", "raised"}
  \/ s_pc = "idle" /\ t_pc = "returned"

\* the arguments of the train calls
CallData == {TrainCorpus(2), TrainCorpus(4)}

CallConfigs ==
  [epochs : 0..1, n_seqs : {1}, n_steps : {1}, print_every : {1}, val_frac : {<<1, 2>>}]

\* the arguments of the sample calls: a prime that is empty, valid or outside
\* the vocabulary
CallPrimes == Arrays({MaxVocab + 1, OutsideSymbol}, 1)

CallSizes == 0..1

CallTopK == {NoTopK, 2}

\* the frame of a new train call on network n
TrainFrame(n) ==
  /\ t_net' = n
  /\ t_arg' \in CallData
  /\ t_cfg' \in CallConfigs
  /\ t_pc' = "called"
  /\ t_val_idx' = 0
  /\ t_data' = <<>>
  /\ t_val_data' = <<>>
  /\ t_e' = 0
  /\ t_counter' = 0
  /\ t_h' = InitHidden
  /\ t_n' = 0
  /\ t_loss' = 0
  /\ t_grad' = NoGrad
  /\ t_val_h' = InitHidden
  /\ t_val_n' = 0
  /\ t_val_losses' = <<>>
  /\ t_steps' = <<>>
  /\ t_sweeps' = <<>>
  /\ t_bound' = Unbound

\* no train call
TrainGone ==
  /\ t_net' = NoNet
  /\ t_arg' = <<>>
  /\ t_cfg' = [epochs |-> 0, n_seqs |-> 1, n_steps |-> 1, print_every |-> 1,
               val_frac |-> <<1, 10>>]
  /\ t_pc' = "idle"
  /\ t_val_idx' = 0
  /\ t_data' = <<>>
  /\ t_val_data' = <<>>
  /\ t_e' = 0
  /\ t_counter' = 0
  /\ t_h' = InitHidden
  /\ t_n' = 0
  /\ t_loss' = 0
  /\ t_grad' = NoGrad
  /\ t_val_h' = InitHidden
  /\ t_val_n' = 0
  /\ t_val_losses' = <<>>
  /\ t_steps' = <<>>
  /\ t_sweeps' = <<>>
  /\ t_bound' = Unbound

\* the frame of a new sample call on network n
SampleFrame(n) ==
  /\ s_net' = n
  /\ s_size' \in CallSizes
  /\ s_prime' \in CallPrimes
  /\ s_top_k' \in CallTopK
  /\ s_pc' = "called"
  /\ s_i' = 0
  /\ s_chars' = <<>>
  /\ s_char' = 0
  /\ s_char_bound' = FALSE
  /\ s_h' = InitHidden
  /\ s_calls' = <<>>
  /\ s_ret' = <<>>

\* no sample call
SampleGone ==
  /\ s_net' = NoNet
  /\ s_size' = 0
  /\ s_prime' = <<>>
  /\ s_top_k' = NoTopK
  /\ s_pc' = "idle"
  /\ s_i' = 0
  /\ s_chars' = <<>>
  /\ s_char' = 0
  /\ s_char_bound' = FALSE
  /\ s_h' = InitHidden
  /\ s_calls' = <<>>
  /\ s_ret' = <<>>

\* the first call is a train call or a sample call, on a network fresh from
\* its constructor (training mode) or left in evaluation mode
InitCalls ==
  /\ KernelIdle
  /\ BatchIdle
  /\ OneHotIdle
  /\ KerasIdle
  /\ \/ /\ SampleIdle
        /\ InitTrain
        /\ t_arg \in CallData
        /\ t_cfg \in CallConfigs
     \/ /\ TrainIdle
        /\ InitSample
        /\ s_net \in {TrainNet, TrainMode(TrainNet)}
        /\ s_size \in CallSizes
        /\ s_prime \in CallPrimes
        /\ s_top_k \in CallTopK

\* train(net, ...) is called
CallTrain ==
  /\ NoCallRunning
  /\ CurrentNet.weights < MaxUpdates
  /\ TrainFrame(CurrentNet)
  /\ SampleGone
  /\ UNCHANGED <<kernelVars, batchVars, oneHotVars, kerasVars>>

\* sample(net, ...) is called
CallSample ==
  /\ NoCallRunning
  /\ SampleFrame(CurrentNet)
  /\ TrainGone
  /\ UNCHANGED <<kernelVars, batchVars, oneHotVars, kerasVars>>

NextCalls ==
  \/ CallTrain
  \/ CallSample
  \/ NextTrain
  \/ NextSample

SpecCalls == InitCalls /\ [][NextCalls]_vars

\* the modes recorded at the forward passes and optimizer steps of a batch
ModesOf(rec) == {rec.modes[i][2] : i \in DOMAIN rec.modes}

ModesInv ==
  /\ \A k \in DOMAIN t_steps :
       /\ ModesOf(t_steps[k]) = {TRUE}
       /\ Len(t_steps[k].modes) = 2
  /\ \A j \in DOMAIN t_sweeps : \A m \in DOMAIN t_sweeps[j].vals :
       /\ ModesOf(t_sweeps[j].vals[m]) = {TRUE}
       /\ Len(t_sweeps[j].vals[m].modes) = 1
  /\ \A k \in DOMAIN s_calls : s_calls[k].training = FALSE
  /\ t_pc \in {"epoch", "batch", "val", "returned"} => t_net.training
  /\ s_pc \in {"prime", "gen", "returned", "raised"} => ~s_net.training

\* C29: the mode changes only on entry to train (to training mode) and on
\* entry to sample (to evaluation mode); for any sequence of train and sample
\* calls on the same network every update step and every validation sweep
\* runs in training mode and every forward pass of sample in evaluation
\* mode; predict and the validation sweep never change the mode.
ModeSetOnEntryOnly ==
  /\ []ModesInv
  /\ [][CurrentNet'.training # CurrentNet.training =>
          \/ t_pc = "called" /\ t_pc' = "epoch" /\ CurrentNet'.training
          \/ s_pc = "called" /\ s_pc' = "prime" /\ ~CurrentNet'.training]_vars
  /\ [][(t_pc = "val" \/ s_pc \in {"prime", "gen"}) =>
          CurrentNet'.training = CurrentNet.training]_vars

ModeSetOnEntryOnlyWitness ==
  /\ s_pc = "returned"
  /\ Len(s_calls) >= 2
  /\ s_net.weights >= 2
  /\ ~s_net.training

=============================================================================
